---- MODULE Spec2Model ----
(***************************************************************************)
(* Model of the escrow marketplace contract (contracts/market/src/lib.rs)  *)
(* together with the collaborators it calls: the token interface, the      *)
(* Registry's get_profile and the ledger clock.  Every contract entry      *)
(* point is one action.  For each entry point an _outcome operator walks   *)
(* its guards in the order of the code and gives the panic message of the  *)
(* first one that fails, or OK.  A panic rolls the whole unit of work      *)
(* back, so a call whose outcome is not OK takes no step: the action is    *)
(* enabled exactly when the outcome is OK.                                 *)
(***************************************************************************)
EXTENDS Integers, Sequences, FiniteSets, TLC

\* ---------------------------------------------------------------- bounds
MaxJobs == 1          \* Spec creates at most this many jobs, SpecPair one more
MaxAmount == 1        \* largest amount argument tried
MaxExtensions == 1    \* cap on the accumulated deadline, in units of ExtraUnit
MaxFeeJobs == 2       \* most jobs a MarketplaceContract store is seeded with
MaxFeeAmount == 100   \* the escrow amounts 0 .. MaxFeeAmount are tried for the first job

\* ---------------------------------------------------------------- constants
SevenDays == 604800
ROLE_FINDER == 0
ROLE_CURATOR == 1
ROLE_ADMIN == 2
ROLE_ARTISAN == 3
ExtraUnit == 86400
FEE_PERCENTAGE == 1

\* ---------------------------------------------------------------- identities
Market == "market"
Registry == "registry"
Addresses == {"finder", "artisan", "banned", "guest"}
Creators == {"finder", "artisan"}    \* the addresses create_job is tried with
Admin == "admin"                     \* the address MarketplaceContract keeps as ADMIN
Holders == Addresses \cup {Market, Admin}
Tokens == {"tok"}
None == "none"

Amounts == (0 - 1) .. MaxAmount
ExtraTimes == {ExtraUnit, 2 * ExtraUnit}
\* the callers tried: every address authenticated, and one call without authorization
Calls == (Addresses \X {TRUE}) \cup {<<"guest", FALSE>>}
CreatorCalls == (Creators \X {TRUE}) \cup {<<"finder", FALSE>>}
Timestamps == {0, SevenDays, SevenDays + 1}    \* clock values tried, around the threshold

JobStatus == {"Open", "Assigned", "InProgress", "PendingReview",
              "Completed", "Disputed", "Cancelled"}

\* registry::Profile as the market reads it; NoProfile stands for an absent entry
NoProfile == [role |-> 99, is_verified |-> FALSE, is_blacklisted |-> FALSE, present |-> FALSE]
Profile(role, verified, blacklisted) ==
    [role |-> role, is_verified |-> verified, is_blacklisted |-> blacklisted, present |-> TRUE]

VARIABLES
    registry_contract,  \* DataKey::RegistryContract, None while unset
    job_counter,        \* DataKey::JobCounter (0 while absent)
    jobs,               \* DataKey::Job(id) -> Job, for the ids stored
    balance,            \* token -> holder -> balance (token collaborator)
    now,                \* env.ledger().timestamp()
    profiles,           \* Registry collaborator: address -> profile
    received,           \* history: id -> total transferred in for the job
    paid,               \* history: id -> sequence of transfers out for the job
    events,             \* events published by the latest unit of work (kept while observed)
    observed,           \* whether an observer records the published events
    JOBS,               \* MarketplaceContract: the jobs kept under the JOBS key
    ADMIN,              \* MarketplaceContract: the address kept under the ADMIN key
    registry_admin      \* Registry: DataKey::Admin, None while unset

vars == <<registry_contract, job_counter, jobs, balance, now, profiles,
          received, paid, events, observed, JOBS, ADMIN, registry_admin>>

stored == <<registry_contract, job_counter, jobs, balance, profiles, received, paid>>

OK == "ok"

\* ---------------------------------------------------------------- token
\* transfer(from, to, amount) either moves the whole amount or panics: it panics
\* for a negative amount and when the debited balance is too small
CanTransfer(tok, from, amount) == amount >= 0 /\ balance[tok][from] >= amount

Transfer(bal, tok, from, to, amount) ==
    [bal EXCEPT ![tok] = [@ EXCEPT ![from] = @ - amount, ![to] = @ + amount]]

\* ---------------------------------------------------------------- initial state
\* what the token admin mints to each holder before the first call
minted(h) == IF h = "finder" THEN MaxAmount + 1 ELSE IF h = "artisan" THEN 1 ELSE 0

Deployed ==
    /\ registry_contract = None
    /\ job_counter = 0
    /\ jobs = << >>
    /\ balance = [t \in Tokens |-> [h \in Holders |-> minted(h)]]
    /\ now = 0
    /\ profiles = [a \in Addresses |->
                    CASE a = "finder"  -> Profile(ROLE_FINDER, FALSE, FALSE)
                      [] a = "artisan" -> Profile(ROLE_ARTISAN, FALSE, FALSE)
                      [] a = "banned"  -> Profile(ROLE_ARTISAN, TRUE, TRUE)
                      [] OTHER         -> NoProfile]
    /\ received = << >>
    /\ paid = << >>
    /\ events = << >>

\* MarketplaceContract is not deployed next to MarketContract
NoMarketplace == JOBS = << >> /\ ADMIN = None

\* the market never reads the Registry's admin; its tests seed the profiles
\* directly, and setup_market_and_registry leaves the admin unset
RegistrySeeded == registry_admin = None

Init == Deployed /\ observed = FALSE /\ NoMarketplace /\ RegistrySeeded

\* a unit of work that returns: its events are published
Publish(evs) ==
    /\ events' = IF observed THEN evs ELSE << >>
    /\ UNCHANGED <<now, observed, JOBS, ADMIN, registry_admin>>

\* ---------------------------------------------------------------- initialize
\* mutant: initialize has no guard
initialize_outcome_unguarded == OK

initialize_outcome ==
    IF registry_contract # None THEN "Already initialized" ELSE OK

initialize(registry) ==
    /\ initialize_outcome = OK
    /\ registry_contract' = registry
    /\ Publish(<< >>)
    /\ UNCHANGED <<job_counter, jobs, balance, profiles, received, paid>>

\* ---------------------------------------------------------------- create_job
\* mutant: create_job insists on a positive amount
create_job_outcome_rejects_zero(finder, token, amount, authed) ==
    IF ~authed THEN "Unauthorized"
    ELSE IF amount <= 0 THEN "Amount must be positive"
    ELSE IF ~CanTransfer(token, finder, amount) THEN "Transfer failed"
    ELSE OK

create_job_outcome(finder, token, amount, authed) ==
    IF ~authed THEN "Unauthorized"
    ELSE IF ~CanTransfer(token, finder, amount) THEN "Transfer failed"
    ELSE OK

\* mutant: the new counter value is not written back
create_job_counter_not_saved(finder, token, amount, authed) ==
    LET id == job_counter + 1 IN
    /\ create_job_outcome(finder, token, amount, authed) = OK
    /\ balance' = Transfer(balance, token, finder, Market, amount)
    /\ job_counter' = job_counter
    /\ jobs' = [i \in DOMAIN jobs \cup {id} |->
                  IF i = id
                  THEN [id |-> id, finder |-> finder, artisan |-> None,
                        token |-> token, amount |-> amount, status |-> "Open",
                        start_time |-> 0, end_time |-> 0, deadline |-> 0]
                  ELSE jobs[i]]
    /\ received' = [i \in DOMAIN received \cup {id} |->
                      IF i = id THEN amount ELSE received[i]]
    /\ paid' = [i \in DOMAIN paid \cup {id} |->
                      IF i = id THEN << >> ELSE paid[i]]
    /\ Publish(<<[kind |-> "JobCreated", id |-> id, amount |-> amount]>>)
    /\ UNCHANGED <<registry_contract, profiles>>

\* mutant: the record is stored without locking the funds
create_job_funds_not_locked(finder, token, amount, authed) ==
    LET id == job_counter + 1 IN
    /\ create_job_outcome(finder, token, amount, authed) = OK
    /\ balance' = balance
    /\ job_counter' = id
    /\ jobs' = [i \in DOMAIN jobs \cup {id} |->
                  IF i = id
                  THEN [id |-> id, finder |-> finder, artisan |-> None,
                        token |-> token, amount |-> amount, status |-> "Open",
                        start_time |-> 0, end_time |-> 0, deadline |-> 0]
                  ELSE jobs[i]]
    /\ received' = [i \in DOMAIN received \cup {id} |->
                      IF i = id THEN amount ELSE received[i]]
    /\ paid' = [i \in DOMAIN paid \cup {id} |->
                      IF i = id THEN << >> ELSE paid[i]]
    /\ Publish(<<[kind |-> "JobCreated", id |-> id, amount |-> amount]>>)
    /\ UNCHANGED <<registry_contract, profiles>>

\* mutant: a create_job whose transfer fails still consumes a job id
create_job_id_consumed_on_failure(finder, token, amount, authed) ==
    LET id == job_counter + 1 IN
    \/ /\ create_job_outcome(finder, token, amount, authed) = OK
       /\ balance' = Transfer(balance, token, finder, Market, amount)
       /\ job_counter' = id
       /\ jobs' = [i \in DOMAIN jobs \cup {id} |->
                     IF i = id
                     THEN [id |-> id, finder |-> finder, artisan |-> None,
                           token |-> token, amount |-> amount, status |-> "Open",
                           start_time |-> 0, end_time |-> 0, deadline |-> 0]
                     ELSE jobs[i]]
       /\ received' = [i \in DOMAIN received \cup {id} |->
                         IF i = id THEN amount ELSE received[i]]
       /\ paid' = [i \in DOMAIN paid \cup {id} |->
                         IF i = id THEN << >> ELSE paid[i]]
       /\ Publish(<<[kind |-> "JobCreated", id |-> id, amount |-> amount]>>)
       /\ UNCHANGED <<registry_contract, profiles>>
    \/ /\ create_job_outcome(finder, token, amount, authed) = "Transfer failed"
       /\ job_counter' = id
       /\ Publish(<< >>)
       /\ UNCHANGED <<registry_contract, jobs, balance, profiles, received, paid>>

create_job(finder, token, amount, authed) ==
    LET id == job_counter + 1 IN
    /\ create_job_outcome(finder, token, amount, authed) = OK
    /\ balance' = Transfer(balance, token, finder, Market, amount)
    /\ job_counter' = id
    /\ jobs' = [i \in DOMAIN jobs \cup {id} |->
                  IF i = id
                  THEN [id |-> id, finder |-> finder, artisan |-> None,
                        token |-> token, amount |-> amount, status |-> "Open",
                        start_time |-> 0, end_time |-> 0, deadline |-> 0]
                  ELSE jobs[i]]
    /\ received' = [i \in DOMAIN received \cup {id} |->
                      IF i = id THEN amount ELSE received[i]]
    /\ paid' = [i \in DOMAIN paid \cup {id} |->
                      IF i = id THEN << >> ELSE paid[i]]
    /\ Publish(<<[kind |-> "JobCreated", id |-> id, amount |-> amount]>>)
    /\ UNCHANGED <<registry_contract, profiles>>

\* ---------------------------------------------------------------- registry client
\* registry::Client::get_profile panics "User not found" for an absent profile
\* mutant: the blacklist flag is not looked at
role_gate_ignores_blacklist(artisan) ==
    IF ~profiles[artisan].present THEN "User not found"
    ELSE IF profiles[artisan].role # ROLE_ARTISAN THEN "User is not a verified Artisan"
    ELSE OK

\* mutant: only a verified Artisan passes the gate
role_gate_requires_verified(artisan) ==
    IF ~profiles[artisan].present THEN "User not found"
    ELSE IF profiles[artisan].role # ROLE_ARTISAN THEN "User is not a verified Artisan"
    ELSE IF profiles[artisan].is_blacklisted THEN "User is blacklisted"
    ELSE IF ~profiles[artisan].is_verified THEN "User is not a verified Artisan"
    ELSE OK

role_gate(artisan) ==
    IF ~profiles[artisan].present THEN "User not found"
    ELSE IF profiles[artisan].role # ROLE_ARTISAN THEN "User is not a verified Artisan"
    ELSE IF profiles[artisan].is_blacklisted THEN "User is blacklisted"
    ELSE OK

\* mutant: every record is kept under one storage key
Store_under_one_key(id, job) == [i \in DOMAIN jobs |-> job]

Store(id, job) == [jobs EXCEPT ![id] = job]

\* ---------------------------------------------------------------- assign_artisan
\* mutant: the status guard of assign_artisan is missing
assign_artisan_outcome_any_status(finder, job_id, artisan, authed) ==
    IF registry_contract = None THEN "Contract not initialized"
    ELSE IF job_id \notin DOMAIN jobs THEN "Job not found"
    ELSE IF ~authed THEN "Unauthorized"
    ELSE IF jobs[job_id].finder # finder THEN "Not job owner"
    ELSE role_gate(artisan)

\* mutant: the artisan's profile is fetched before the job is looked up
assign_artisan_outcome_gate_first(finder, job_id, artisan, authed) ==
    IF registry_contract = None THEN "Contract not initialized"
    ELSE IF role_gate(artisan) # OK THEN role_gate(artisan)
    ELSE IF job_id \notin DOMAIN jobs THEN "Job not found"
    ELSE IF ~authed THEN "Unauthorized"
    ELSE IF jobs[job_id].finder # finder THEN "Not job owner"
    ELSE IF jobs[job_id].status # "Open" THEN "Job is not open"
    ELSE OK

assign_artisan_outcome(finder, job_id, artisan, authed) ==
    IF registry_contract = None THEN "Contract not initialized"
    ELSE IF job_id \notin DOMAIN jobs THEN "Job not found"
    ELSE IF ~authed THEN "Unauthorized"
    ELSE IF jobs[job_id].finder # finder THEN "Not job owner"
    ELSE IF jobs[job_id].status # "Open" THEN "Job is not open"
    ELSE role_gate(artisan)

\* mutant: the assignment sets the status but not job.artisan
assign_artisan_status_only(finder, job_id, artisan, authed) ==
    /\ assign_artisan_outcome(finder, job_id, artisan, authed) = OK
    /\ jobs' = Store(job_id, [jobs[job_id] EXCEPT !.status = "Assigned"])
    /\ Publish(<<[kind |-> "JobAssigned", id |-> job_id, artisan |-> artisan]>>)
    /\ UNCHANGED <<registry_contract, job_counter, balance, profiles, received, paid>>

\* mutant: the assignment puts the job straight into InProgress
assign_artisan_starts_job(finder, job_id, artisan, authed) ==
    /\ assign_artisan_outcome(finder, job_id, artisan, authed) = OK
    /\ jobs' = Store(job_id, [jobs[job_id] EXCEPT !.artisan = artisan,
                                                  !.status = "InProgress"])
    /\ Publish(<<[kind |-> "JobAssigned", id |-> job_id, artisan |-> artisan]>>)
    /\ UNCHANGED <<registry_contract, job_counter, balance, profiles, received, paid>>

assign_artisan(finder, job_id, artisan, authed) ==
    /\ assign_artisan_outcome(finder, job_id, artisan, authed) = OK
    /\ jobs' = Store(job_id, [jobs[job_id] EXCEPT !.artisan = artisan,
                                                  !.status = "Assigned"])
    /\ Publish(<<[kind |-> "JobAssigned", id |-> job_id, artisan |-> artisan]>>)
    /\ UNCHANGED <<registry_contract, job_counter, balance, profiles, received, paid>>

\* ---------------------------------------------------------------- apply_for_job
apply_for_job_outcome(artisan, job_id, authed) ==
    IF ~authed THEN "Unauthorized"
    ELSE IF registry_contract = None THEN "Contract not initialized"
    ELSE IF job_id \notin DOMAIN jobs THEN "Job not found"
    ELSE IF jobs[job_id].status # "Open" THEN "Job is not open"
    ELSE role_gate(artisan)

\* mutant: the application is recorded in the job as its artisan
apply_for_job_records_applicant(artisan, job_id, authed) ==
    /\ apply_for_job_outcome(artisan, job_id, authed) = OK
    /\ jobs' = Store(job_id, [jobs[job_id] EXCEPT !.artisan = artisan])
    /\ Publish(<<[kind |-> "JobApplication", id |-> job_id, artisan |-> artisan]>>)
    /\ UNCHANGED <<registry_contract, job_counter, balance, profiles, received, paid>>

apply_for_job(artisan, job_id, authed) ==
    /\ apply_for_job_outcome(artisan, job_id, authed) = OK
    /\ Publish(<<[kind |-> "JobApplication", id |-> job_id, artisan |-> artisan]>>)
    /\ UNCHANGED stored

\* ---------------------------------------------------------------- start_job
\* mutant: the status guard of start_job is missing
start_job_outcome_any_status(artisan, job_id, authed) ==
    IF ~authed THEN "Unauthorized"
    ELSE IF job_id \notin DOMAIN jobs THEN "Job not found"
    ELSE IF jobs[job_id].artisan # artisan THEN "Not assigned to this job"
    ELSE OK

\* mutant: start_job refuses a job whose deadline was never extended
start_job_outcome_needs_deadline(artisan, job_id, authed) ==
    IF ~authed THEN "Unauthorized"
    ELSE IF job_id \notin DOMAIN jobs THEN "Job not found"
    ELSE IF jobs[job_id].status # "Assigned" THEN "Job is not assigned"
    ELSE IF jobs[job_id].artisan # artisan THEN "Not assigned to this job"
    ELSE IF jobs[job_id].deadline = 0 THEN "Job has no deadline"
    ELSE OK

\* mutant: start_job asks the Registry again whether the artisan is eligible
start_job_outcome_checks_gate(artisan, job_id, authed) ==
    IF ~authed THEN "Unauthorized"
    ELSE IF job_id \notin DOMAIN jobs THEN "Job not found"
    ELSE IF jobs[job_id].status # "Assigned" THEN "Job is not assigned"
    ELSE IF jobs[job_id].artisan # artisan THEN "Not assigned to this job"
    ELSE role_gate(artisan)

start_job_outcome(artisan, job_id, authed) ==
    IF ~authed THEN "Unauthorized"
    ELSE IF job_id \notin DOMAIN jobs THEN "Job not found"
    ELSE IF jobs[job_id].status # "Assigned" THEN "Job is not assigned"
    ELSE IF jobs[job_id].artisan # artisan THEN "Not assigned to this job"
    ELSE OK

\* mutant: start_job files the job as Disputed
start_job_disputes(artisan, job_id, authed) ==
    /\ start_job_outcome(artisan, job_id, authed) = OK
    /\ jobs' = Store(job_id, [jobs[job_id] EXCEPT !.status = "Disputed",
                                                  !.start_time = now])
    /\ Publish(<<[kind |-> "JobStarted", id |-> job_id, artisan |-> artisan]>>)
    /\ UNCHANGED <<registry_contract, job_counter, balance, profiles, received, paid>>

start_job(artisan, job_id, authed) ==
    /\ start_job_outcome(artisan, job_id, authed) = OK
    /\ jobs' = Store(job_id, [jobs[job_id] EXCEPT !.status = "InProgress",
                                                  !.start_time = now])
    /\ Publish(<<[kind |-> "JobStarted", id |-> job_id, artisan |-> artisan]>>)
    /\ UNCHANGED <<registry_contract, job_counter, balance, profiles, received, paid>>

\* ---------------------------------------------------------------- cancel_job
\* mutant: the status guard of cancel_job is missing
cancel_job_outcome_any_status(finder, job_id, authed) ==
    IF ~authed THEN "Unauthorized"
    ELSE IF job_id \notin DOMAIN jobs THEN "Job not found"
    ELSE IF jobs[job_id].finder # finder THEN "Not job owner"
    ELSE IF ~CanTransfer(jobs[job_id].token, Market, jobs[job_id].amount) THEN "Transfer failed"
    ELSE OK

\* mutant: cancel_job reads the Registry address first
cancel_job_outcome_needs_registry(finder, job_id, authed) ==
    IF ~authed THEN "Unauthorized"
    ELSE IF registry_contract = None THEN "Contract not initialized"
    ELSE IF job_id \notin DOMAIN jobs THEN "Job not found"
    ELSE IF jobs[job_id].finder # finder THEN "Not job owner"
    ELSE IF jobs[job_id].status # "Open" THEN "Job is not open"
    ELSE IF ~CanTransfer(jobs[job_id].token, Market, jobs[job_id].amount) THEN "Transfer failed"
    ELSE OK

\* mutant: the finder may still cancel until the artisan has started
cancel_job_outcome_until_started(finder, job_id, authed) ==
    IF ~authed THEN "Unauthorized"
    ELSE IF job_id \notin DOMAIN jobs THEN "Job not found"
    ELSE IF jobs[job_id].finder # finder THEN "Not job owner"
    ELSE IF jobs[job_id].status \notin {"Open", "Assigned"} THEN "Job is not open"
    ELSE IF ~CanTransfer(jobs[job_id].token, Market, jobs[job_id].amount) THEN "Transfer failed"
    ELSE OK

cancel_job_outcome(finder, job_id, authed) ==
    IF ~authed THEN "Unauthorized"
    ELSE IF job_id \notin DOMAIN jobs THEN "Job not found"
    ELSE IF jobs[job_id].finder # finder THEN "Not job owner"
    ELSE IF jobs[job_id].status # "Open" THEN "Job is not open"
    ELSE IF ~CanTransfer(jobs[job_id].token, Market, jobs[job_id].amount) THEN "Transfer failed"
    ELSE OK

\* mutant: the refund is the amount less one unit
cancel_job_short_refund(finder, job_id, authed) ==
    /\ cancel_job_outcome(finder, job_id, authed) = OK
    /\ LET job == jobs[job_id]
           refund == IF job.amount > 0 THEN job.amount - 1 ELSE 0
       IN
       /\ balance' = Transfer(balance, job.token, Market, finder, refund)
       /\ paid' = [paid EXCEPT ![job_id] = Append(@, [to |-> finder, amount |-> refund])]
       /\ jobs' = Store(job_id, [job EXCEPT !.status = "Cancelled"])
       /\ Publish(<<[kind |-> "JobCancelled", id |-> job_id]>>)
       /\ UNCHANGED <<registry_contract, job_counter, profiles, received>>

cancel_job(finder, job_id, authed) ==
    /\ cancel_job_outcome(finder, job_id, authed) = OK
    /\ LET job == jobs[job_id] IN
       /\ balance' = Transfer(balance, job.token, Market, finder, job.amount)
       /\ paid' = [paid EXCEPT ![job_id] = Append(@, [to |-> finder, amount |-> job.amount])]
       /\ jobs' = Store(job_id, [job EXCEPT !.status = "Cancelled"])
       /\ Publish(<<[kind |-> "JobCancelled", id |-> job_id]>>)
       /\ UNCHANGED <<registry_contract, job_counter, profiles, received>>

\* ---------------------------------------------------------------- complete_job
\* mutant: complete_job checks the status before the assignment, as start_job does
complete_job_outcome_status_first(artisan, job_id, authed) ==
    IF ~authed THEN "Unauthorized"
    ELSE IF job_id \notin DOMAIN jobs THEN "Job not found"
    ELSE IF jobs[job_id].status # "InProgress" THEN "Job is not in progress"
    ELSE IF jobs[job_id].artisan # artisan THEN "Not assigned to this job"
    ELSE OK

complete_job_outcome(artisan, job_id, authed) ==
    IF ~authed THEN "Unauthorized"
    ELSE IF job_id \notin DOMAIN jobs THEN "Job not found"
    ELSE IF jobs[job_id].artisan # artisan THEN "Not assigned to this job"
    ELSE IF jobs[job_id].status # "InProgress" THEN "Job is not in progress"
    ELSE OK

\* mutant: complete_job marks the job Completed, skipping the review period
complete_job_marks_completed(artisan, job_id, authed) ==
    /\ complete_job_outcome(artisan, job_id, authed) = OK
    /\ jobs' = Store(job_id, [jobs[job_id] EXCEPT !.status = "Completed",
                                                  !.end_time = now])
    /\ Publish(<<[kind |-> "JobCompleted", id |-> job_id, artisan |-> artisan]>>)
    /\ UNCHANGED <<registry_contract, job_counter, balance, profiles, received, paid>>

\* mutant: complete_job does not stamp end_time
complete_job_end_time_not_set(artisan, job_id, authed) ==
    /\ complete_job_outcome(artisan, job_id, authed) = OK
    /\ jobs' = Store(job_id, [jobs[job_id] EXCEPT !.status = "PendingReview"])
    /\ Publish(<<[kind |-> "JobCompleted", id |-> job_id, artisan |-> artisan]>>)
    /\ UNCHANGED <<registry_contract, job_counter, balance, profiles, received, paid>>

complete_job(artisan, job_id, authed) ==
    /\ complete_job_outcome(artisan, job_id, authed) = OK
    /\ jobs' = Store(job_id, [jobs[job_id] EXCEPT !.status = "PendingReview",
                                                  !.end_time = now])
    /\ Publish(<<[kind |-> "JobCompleted", id |-> job_id, artisan |-> artisan]>>)
    /\ UNCHANGED <<registry_contract, job_counter, balance, profiles, received, paid>>

\* ---------------------------------------------------------------- auto_release_funds
release_time(job) == job.end_time + SevenDays

\* mutant: the release is allowed at release_time itself
auto_release_funds_outcome_at_threshold(artisan, job_id, authed) ==
    IF ~authed THEN "Unauthorized"
    ELSE IF job_id \notin DOMAIN jobs THEN "Job not found"
    ELSE IF jobs[job_id].status # "PendingReview" THEN "Job is not in PendingReview status"
    ELSE IF jobs[job_id].artisan = None THEN "Job has no assigned artisan"
    ELSE IF jobs[job_id].artisan # artisan THEN "Only the assigned artisan can release funds"
    ELSE IF now < release_time(jobs[job_id]) THEN "7 days have not passed since job completion"
    ELSE IF ~CanTransfer(jobs[job_id].token, Market, jobs[job_id].amount) THEN "Transfer failed"
    ELSE OK

auto_release_funds_outcome(artisan, job_id, authed) ==
    IF ~authed THEN "Unauthorized"
    ELSE IF job_id \notin DOMAIN jobs THEN "Job not found"
    ELSE IF jobs[job_id].status # "PendingReview" THEN "Job is not in PendingReview status"
    ELSE IF jobs[job_id].artisan = None THEN "Job has no assigned artisan"
    ELSE IF jobs[job_id].artisan # artisan THEN "Only the assigned artisan can release funds"
    ELSE IF now <= release_time(jobs[job_id]) THEN "7 days have not passed since job completion"
    ELSE IF ~CanTransfer(jobs[job_id].token, Market, jobs[job_id].amount) THEN "Transfer failed"
    ELSE OK

\* mutant: a fee of one unit is withheld from the payout
auto_release_funds_less_fee(artisan, job_id, authed) ==
    /\ auto_release_funds_outcome(artisan, job_id, authed) = OK
    /\ LET job == jobs[job_id]
           payout == IF job.amount > 0 THEN job.amount - 1 ELSE 0
       IN
       /\ balance' = Transfer(balance, job.token, Market, artisan, payout)
       /\ paid' = [paid EXCEPT ![job_id] = Append(@, [to |-> artisan, amount |-> payout])]
       /\ jobs' = Store(job_id, [job EXCEPT !.status = "Completed"])
       /\ Publish(<<[kind |-> "FundsReleased", id |-> job_id, artisan |-> artisan,
                  amount |-> payout]>>)
       /\ UNCHANGED <<registry_contract, job_counter, profiles, received>>

auto_release_funds(artisan, job_id, authed) ==
    /\ auto_release_funds_outcome(artisan, job_id, authed) = OK
    /\ LET job == jobs[job_id] IN
       /\ balance' = Transfer(balance, job.token, Market, artisan, job.amount)
       /\ paid' = [paid EXCEPT ![job_id] = Append(@, [to |-> artisan, amount |-> job.amount])]
       /\ jobs' = Store(job_id, [job EXCEPT !.status = "Completed"])
       /\ Publish(<<[kind |-> "FundsReleased", id |-> job_id, artisan |-> artisan,
                  amount |-> job.amount]>>)
       /\ UNCHANGED <<registry_contract, job_counter, profiles, received>>

\* ---------------------------------------------------------------- extend_deadline
\* mutant: only Completed counts as finalized
extend_deadline_outcome_cancelled_open(finder, job_id, authed) ==
    IF ~authed THEN "Unauthorized"
    ELSE IF job_id \notin DOMAIN jobs THEN "Job not found"
    ELSE IF jobs[job_id].finder # finder THEN "Not job owner"
    ELSE IF jobs[job_id].status = "Completed" THEN "Job is already finalized"
    ELSE OK

extend_deadline_outcome(finder, job_id, authed) ==
    IF ~authed THEN "Unauthorized"
    ELSE IF job_id \notin DOMAIN jobs THEN "Job not found"
    ELSE IF jobs[job_id].finder # finder THEN "Not job owner"
    ELSE IF jobs[job_id].status \in {"Completed", "Cancelled"} THEN "Job is already finalized"
    ELSE OK

\* mutant: DeadlineExtended carries the deadline read before the extension
extend_deadline_publishes_old_deadline(finder, job_id, extra_time, authed) ==
    /\ extend_deadline_outcome(finder, job_id, authed) = OK
    /\ LET job == [jobs[job_id] EXCEPT !.deadline = @ + extra_time] IN
       /\ jobs' = Store(job_id, job)
       /\ Publish(<<[kind |-> "DeadlineExtended", id |-> job_id, extra_time |-> extra_time,
                  new_deadline |-> jobs[job_id].deadline]>>)
       /\ UNCHANGED <<registry_contract, job_counter, balance, profiles, received, paid>>

\* mutant: an extension restarts the review period
extend_deadline_restarts_review(finder, job_id, extra_time, authed) ==
    /\ extend_deadline_outcome(finder, job_id, authed) = OK
    /\ LET job == [jobs[job_id] EXCEPT !.deadline = @ + extra_time, !.end_time = now] IN
       /\ jobs' = Store(job_id, job)
       /\ Publish(<<[kind |-> "DeadlineExtended", id |-> job_id, extra_time |-> extra_time,
                  new_deadline |-> job.deadline]>>)
       /\ UNCHANGED <<registry_contract, job_counter, balance, profiles, received, paid>>

extend_deadline(finder, job_id, extra_time, authed) ==
    /\ extend_deadline_outcome(finder, job_id, authed) = OK
    /\ LET job == [jobs[job_id] EXCEPT !.deadline = @ + extra_time] IN
       /\ jobs' = Store(job_id, job)
       /\ Publish(<<[kind |-> "DeadlineExtended", id |-> job_id, extra_time |-> extra_time,
                  new_deadline |-> job.deadline]>>)
       /\ UNCHANGED <<registry_contract, job_counter, balance, profiles, received, paid>>

\* ---------------------------------------------------------------- increase_budget
increase_budget_outcome(finder, job_id, added_amount, authed) ==
    IF ~authed THEN "Unauthorized"
    ELSE IF job_id \notin DOMAIN jobs THEN "Job not found"
    ELSE IF jobs[job_id].finder # finder THEN "Not job owner"
    ELSE IF jobs[job_id].status \in {"Completed", "Cancelled"} THEN "Job is already finalized"
    ELSE IF ~CanTransfer(jobs[job_id].token, finder, added_amount) THEN "Transfer failed"
    ELSE OK

\* mutant: the funds are locked but job.amount is not increased
increase_budget_amount_not_added(finder, job_id, added_amount, authed) ==
    /\ increase_budget_outcome(finder, job_id, added_amount, authed) = OK
    /\ LET job == jobs[job_id] IN
       /\ balance' = Transfer(balance, job.token, finder, Market, added_amount)
       /\ received' = [received EXCEPT ![job_id] = @ + added_amount]
       /\ jobs' = Store(job_id, job)
       /\ Publish(<<[kind |-> "BudgetIncreased", id |-> job_id, added_amount |-> added_amount,
                  new_amount |-> job.amount]>>)
       /\ UNCHANGED <<registry_contract, job_counter, profiles, paid>>

\* mutant: job.amount is overwritten with the added amount
increase_budget_replaces_amount(finder, job_id, added_amount, authed) ==
    /\ increase_budget_outcome(finder, job_id, added_amount, authed) = OK
    /\ LET job == [jobs[job_id] EXCEPT !.amount = added_amount] IN
       /\ balance' = Transfer(balance, job.token, finder, Market, added_amount)
       /\ received' = [received EXCEPT ![job_id] = @ + added_amount]
       /\ jobs' = Store(job_id, job)
       /\ Publish(<<[kind |-> "BudgetIncreased", id |-> job_id, added_amount |-> added_amount,
                  new_amount |-> job.amount]>>)
       /\ UNCHANGED <<registry_contract, job_counter, profiles, paid>>

\* mutant: the added amount is subtracted from job.amount
increase_budget_subtracts_amount(finder, job_id, added_amount, authed) ==
    /\ increase_budget_outcome(finder, job_id, added_amount, authed) = OK
    /\ LET job == [jobs[job_id] EXCEPT !.amount = @ - added_amount] IN
       /\ balance' = Transfer(balance, job.token, finder, Market, added_amount)
       /\ received' = [received EXCEPT ![job_id] = @ + added_amount]
       /\ jobs' = Store(job_id, job)
       /\ Publish(<<[kind |-> "BudgetIncreased", id |-> job_id, added_amount |-> added_amount,
                  new_amount |-> job.amount]>>)
       /\ UNCHANGED <<registry_contract, job_counter, profiles, paid>>

\* mutant: job.amount is increased without the funds being transferred in
increase_budget_no_transfer(finder, job_id, added_amount, authed) ==
    /\ increase_budget_outcome(finder, job_id, added_amount, authed) = OK
    /\ LET job == [jobs[job_id] EXCEPT !.amount = @ + added_amount] IN
       /\ balance' = balance
       /\ received' = [received EXCEPT ![job_id] = @ + added_amount]
       /\ jobs' = Store(job_id, job)
       /\ Publish(<<[kind |-> "BudgetIncreased", id |-> job_id, added_amount |-> added_amount,
                  new_amount |-> job.amount]>>)
       /\ UNCHANGED <<registry_contract, job_counter, profiles, paid>>

increase_budget(finder, job_id, added_amount, authed) ==
    /\ increase_budget_outcome(finder, job_id, added_amount, authed) = OK
    /\ LET job == [jobs[job_id] EXCEPT !.amount = @ + added_amount] IN
       /\ balance' = Transfer(balance, job.token, finder, Market, added_amount)
       /\ received' = [received EXCEPT ![job_id] = @ + added_amount]
       /\ jobs' = Store(job_id, job)
       /\ Publish(<<[kind |-> "BudgetIncreased", id |-> job_id, added_amount |-> added_amount,
                  new_amount |-> job.amount]>>)
       /\ UNCHANGED <<registry_contract, job_counter, profiles, paid>>

\* ---------------------------------------------------------------- ledger
AdvanceLedger(timestamps) ==
    /\ \E t \in timestamps : t > now /\ now' = t
    /\ UNCHANGED <<stored, events, observed, JOBS, ADMIN, registry_admin>>

\* the entry points, called with every input tried; max_jobs caps the counter,
\* max_deadline the accumulated deadline, timestamps are the clock values
Operation(max_jobs, extra_times, max_deadline, timestamps) ==
    \/ initialize(Registry)
    \/ /\ job_counter < max_jobs
       /\ \E c \in CreatorCalls, t \in Tokens, a \in Amounts : create_job(c[1], t, a, c[2])
    \/ \E c \in Calls, j \in 1 .. (max_jobs + 1), a \in Addresses :
            assign_artisan(c[1], j, a, c[2])
    \/ \E c \in Calls, j \in 1 .. (max_jobs + 1) : apply_for_job(c[1], j, c[2])
    \/ \E c \in Calls, j \in 1 .. (max_jobs + 1) : start_job(c[1], j, c[2])
    \/ \E c \in Calls, j \in 1 .. (max_jobs + 1) : cancel_job(c[1], j, c[2])
    \/ \E c \in Calls, j \in 1 .. (max_jobs + 1) : complete_job(c[1], j, c[2])
    \/ \E c \in Calls, j \in 1 .. (max_jobs + 1) : auto_release_funds(c[1], j, c[2])
    \/ \E c \in Calls, j \in 1 .. (max_jobs + 1), x \in extra_times :
            /\ j \in DOMAIN jobs => jobs[j].deadline + x <= max_deadline
            /\ extend_deadline(c[1], j, x, c[2])
    \/ \E c \in Calls, j \in 1 .. (max_jobs + 1), a \in Amounts :
            increase_budget(c[1], j, a, c[2])
    \/ AdvanceLedger(timestamps)

Next == Operation(MaxJobs, {ExtraUnit}, MaxExtensions * ExtraUnit, Timestamps)

Spec == Init /\ [][Next]_vars

\* the same contract with room for one more job
NextPair == Operation(MaxJobs + 1, {ExtraUnit}, MaxExtensions * ExtraUnit, Timestamps)

SpecPair == Init /\ [][NextPair]_vars

\* the same contract with both extra_time values and room for two more units
NextExtend == Operation(MaxJobs, ExtraTimes, (MaxExtensions + 2) * ExtraUnit, Timestamps)

SpecExtend == Init /\ [][NextExtend]_vars

\* the same contract with its published events recorded, the clock read at
\* deployment and once the review period of a job completed then has passed
InitObserved == Deployed /\ observed = TRUE /\ NoMarketplace /\ RegistrySeeded

NextObserved ==
    Operation(MaxJobs, {ExtraUnit}, MaxExtensions * ExtraUnit, {0, SevenDays + 1})

SpecObserved == InitObserved /\ [][NextObserved]_vars

\* two jobs, the clock read at deployment and after a review period, and every
\* artisan who can release a job doing so sooner or later
NextRelease == Operation(MaxJobs + 1, {ExtraUnit}, MaxExtensions * ExtraUnit, {0, SevenDays + 1})

SpecRelease ==
    /\ Init /\ [][NextRelease]_vars
    /\ \A a \in Addresses, j \in 1 .. (MaxJobs + 1) : WF_vars(auto_release_funds(a, j, TRUE))

\* the same contract while the Registry's storage entry of one address is
\* rewritten between the calls, as the tests do with seed_artisan_profile
Reseeded == {"artisan"}

seed_artisan_profile(artisan, profile) ==
    /\ profiles[artisan] # profile
    /\ profiles' = [profiles EXCEPT ![artisan] = profile]
    /\ UNCHANGED <<registry_contract, job_counter, jobs, balance, now, received, paid,
                   events, observed, JOBS, ADMIN, registry_admin>>

\* the profile is rewritten with is_verified set or cleared
NextVerified ==
    \/ Operation(MaxJobs, {ExtraUnit}, MaxExtensions * ExtraUnit, {0, SevenDays + 1})
    \/ \E a \in Reseeded, v \in BOOLEAN :
            seed_artisan_profile(a, [profiles[a] EXCEPT !.is_verified = v])

SpecVerified == Init /\ [][NextVerified]_vars

\* the profile is rewritten as the Artisan's, as a blacklisted Artisan's or with
\* the role of a Finder
SeededProfiles ==
    { Profile(ROLE_ARTISAN, FALSE, FALSE), Profile(ROLE_ARTISAN, FALSE, TRUE),
      Profile(ROLE_FINDER, FALSE, FALSE) }

NextProfiles ==
    \/ Operation(MaxJobs, {ExtraUnit}, MaxExtensions * ExtraUnit, {0, SevenDays + 1})
    \/ \E a \in Reseeded, p \in SeededProfiles : seed_artisan_profile(a, p)

SpecProfiles == Init /\ [][NextProfiles]_vars

\* ================================================================ MarketplaceContract
\* The second contract of lib.rs, with the platform fee.  Its only entry point is
\* confirm_delivery; no entry point stores a job or the admin, the tests write
\* both into the instance storage before the call.
MarketplaceJobStatus == {"Created", "InProgress", "PendingReview", "Completed", "Disputed"}

MarketplaceJob(id, status, escrow_amount) ==
    [id |-> id, finder |-> "finder", artisan |-> "artisan",
     escrow_amount |-> escrow_amount, status |-> status]

\* the escrow amounts tried for the first job, those of the fee tests among them
FeeAmounts == (0 .. MaxFeeAmount) \cup {10000, 123456}

\* the statuses the tests seed a job in
SeededStatus == {"Created", "PendingReview", "Completed"}

\* the stores the tests seed: jobs 1 .. n, the first in any status and with any
\* of the amounts tried, the others in a seeded status and with 10000 * id
SeededStores ==
    UNION { { [i \in 1 .. n |-> IF i = 1 THEN MarketplaceJob(i, s1, a)
                                ELSE MarketplaceJob(i, st[i], 10000 * i)] :
                s1 \in MarketplaceJobStatus, st \in [1 .. n -> SeededStatus],
                a \in FeeAmounts } :
            n \in 0 .. MaxFeeJobs }

\* the first stored job with the id, as jobs.iter().find does
has_job(job_id) == \E i \in DOMAIN JOBS : JOBS[i].id = job_id

job_index(job_id) ==
    CHOOSE i \in DOMAIN JOBS :
        JOBS[i].id = job_id /\ \A k \in 1 .. (i - 1) : JOBS[k].id # job_id

get_job(job_id) == JOBS[job_index(job_id)]

save_job(job_id, updated_job) == [JOBS EXCEPT ![job_index(job_id)] = updated_job]

\* mutant: the fee is rounded to the nearest unit
calculate_fee_rounds_to_nearest(amount) == (amount * FEE_PERCENTAGE + 50) \div 100

\* (amount * FEE_PERCENTAGE) / 100 in i128: the division truncates towards zero
calculate_fee(amount) ==
    LET product == amount * FEE_PERCENTAGE IN
    IF product >= 0 THEN product \div 100 ELSE 0 - ((0 - product) \div 100)

\* transfer_funds writes a log line and calls no token contract
transfer_funds(recipient, amount) == balance' = balance

\* mutant: the status guard of confirm_delivery is missing
confirm_delivery_outcome_any_status(finder, job_id, authed) ==
    IF ~authed THEN "Unauthorized"
    ELSE IF ~has_job(job_id) THEN "Job with ID not found"
    ELSE IF get_job(job_id).finder # finder THEN "Only the job's finder can confirm delivery"
    ELSE IF ADMIN = None THEN "Admin address not set"
    ELSE OK

confirm_delivery_outcome(finder, job_id, authed) ==
    IF ~authed THEN "Unauthorized"
    ELSE IF ~has_job(job_id) THEN "Job with ID not found"
    ELSE IF get_job(job_id).finder # finder THEN "Only the job's finder can confirm delivery"
    ELSE IF get_job(job_id).status # "PendingReview"
        THEN "Job must be in PendingReview status to confirm delivery"
    ELSE IF ADMIN = None THEN "Admin address not set"
    ELSE OK

confirm_delivery(finder, job_id, authed) ==
    /\ confirm_delivery_outcome(finder, job_id, authed) = OK
    /\ LET job == get_job(job_id)
           total_amount == job.escrow_amount
           fee_amount == calculate_fee(total_amount)
           payout_amount == total_amount - fee_amount
       IN
       /\ transfer_funds(job.artisan, payout_amount)
       /\ transfer_funds(ADMIN, fee_amount)
       /\ JOBS' = save_job(job_id, [job EXCEPT !.status = "Completed"])
       /\ events' = IF observed
                     THEN <<[kind |-> "FUNDS_REL", id |-> job_id, artisan |-> job.artisan,
                             amount |-> payout_amount]>>
                     ELSE << >>
    /\ UNCHANGED <<registry_contract, job_counter, jobs, now, profiles, received, paid,
                   observed, ADMIN, registry_admin>>

\* the state the fee tests call confirm_delivery in
InitFee ==
    /\ Deployed /\ observed = TRUE /\ RegistrySeeded
    /\ JOBS \in SeededStores
    /\ ADMIN \in {None, Admin}

NextFee ==
    \E c \in Calls, j \in 1 .. (MaxFeeJobs + 1) : confirm_delivery(c[1], j, c[2])

SpecFee == InitFee /\ [][NextFee]_vars

\* ================================================================ Registry
\* The Registry contract (contracts/registry/src/lib.rs).  Its profiles are the
\* ones the market reads; it keeps no blacklist flag, so the profiles it writes
\* carry is_blacklisted = FALSE.  No entry point creates a profile: the tests
\* write one into the storage with seed_profile.
Roles == {ROLE_FINDER, ROLE_CURATOR, ROLE_ADMIN, ROLE_ARTISAN}

\* the part of the state the Registry's entry points leave alone
market_state == <<registry_contract, job_counter, jobs, balance, now, received, paid,
                  observed, JOBS, ADMIN>>

Emit(evs) == events' = IF observed THEN evs ELSE << >>

seed_profile(user, role) ==
    /\ profiles' = [profiles EXCEPT ![user] = Profile(role, FALSE, FALSE)]
    /\ Emit(<< >>)
    /\ UNCHANGED <<market_state, registry_admin>>

registry_initialize_outcome == IF registry_admin # None THEN "Already initialized" ELSE OK

registry_initialize(admin) ==
    /\ registry_initialize_outcome = OK
    /\ registry_admin' = admin
    /\ Emit(<< >>)
    /\ UNCHANGED <<market_state, profiles>>

add_curator_outcome(curator, authed) ==
    IF registry_admin = None THEN "Contract not initialized"
    ELSE IF ~authed THEN "Unauthorized"
    ELSE IF ~profiles[curator].present THEN "User not found"
    ELSE IF profiles[curator].role = ROLE_CURATOR THEN "User is already a Curator"
    ELSE OK

add_curator(curator, authed) ==
    /\ add_curator_outcome(curator, authed) = OK
    /\ profiles' = [profiles EXCEPT ![curator].role = ROLE_CURATOR]
    /\ Emit(<< >>)
    /\ UNCHANGED <<market_state, registry_admin>>

\* mutant: the role guard of remove_curator is missing
remove_curator_outcome_any_role(curator, authed) ==
    IF registry_admin = None THEN "Contract not initialized"
    ELSE IF ~authed THEN "Unauthorized"
    ELSE IF ~profiles[curator].present THEN "User not found"
    ELSE OK

remove_curator_outcome(curator, authed) ==
    IF registry_admin = None THEN "Contract not initialized"
    ELSE IF ~authed THEN "Unauthorized"
    ELSE IF ~profiles[curator].present THEN "User not found"
    ELSE IF profiles[curator].role # ROLE_CURATOR THEN "User is not a Curator"
    ELSE OK

remove_curator(curator, authed) ==
    /\ remove_curator_outcome(curator, authed) = OK
    /\ profiles' = [profiles EXCEPT ![curator].role = ROLE_FINDER]
    /\ Emit(<<[kind |-> "CuratorRemoved", curator |-> curator]>>)
    /\ UNCHANGED <<market_state, registry_admin>>

approve_artisan_outcome(caller, artisan, authed) ==
    IF ~authed THEN "Unauthorized"
    ELSE IF ~profiles[caller].present THEN "Caller not registered"
    ELSE IF profiles[caller].role \notin {ROLE_CURATOR, ROLE_ADMIN}
        THEN "Caller must be Curator or Admin"
    ELSE IF ~profiles[artisan].present THEN "User not found"
    ELSE OK

approve_artisan(caller, artisan, authed) ==
    /\ approve_artisan_outcome(caller, artisan, authed) = OK
    /\ profiles' = [profiles EXCEPT ![artisan].role = ROLE_ARTISAN]
    /\ Emit(<<[kind |-> "UserVerified", artisan |-> artisan]>>)
    /\ UNCHANGED <<market_state, registry_admin>>

\* a Registry freshly registered, before initialize and before any profile
InitRegistry ==
    /\ registry_contract = None /\ job_counter = 0 /\ jobs = << >>
    /\ balance = [t \in Tokens |-> [h \in Holders |-> 0]]
    /\ now = 0 /\ received = << >> /\ paid = << >> /\ events = << >>
    /\ observed = TRUE /\ NoMarketplace
    /\ profiles = [a \in Addresses |-> NoProfile]
    /\ registry_admin = None

NextRegistry ==
    \/ \E a \in Addresses : registry_initialize(a)
    \/ \E u \in Addresses, r \in Roles : seed_profile(u, r)
    \/ \E u \in Addresses, au \in BOOLEAN : add_curator(u, au)
    \/ \E u \in Addresses, au \in BOOLEAN : remove_curator(u, au)
    \/ \E c \in Calls, u \in Addresses : approve_artisan(c[1], u, c[2])

SpecRegistry == InitRegistry /\ [][NextRegistry]_vars

\* ---------------------------------------------------------------- error kinds
\* the error kind each panic message stands for
ErrorKind(outcome) ==
    CASE outcome \in {"Job not found", "User not found"} -> "NotFound"
      [] outcome = "Already initialized" -> "AlreadyInitialized"
      [] outcome = "Contract not initialized" -> "NotInitialized"
      [] outcome = "Unauthorized" -> "Unauthorized"
      [] outcome \in {"Not job owner", "Not assigned to this job",
                      "Only the assigned artisan can release funds"} -> "NotOwner"
      [] outcome \in {"Job is not open", "Job is not assigned", "Job is not in progress",
                      "Job is not in PendingReview status", "Job is already finalized",
                      "Job has no assigned artisan"} -> "InvalidState"
      [] outcome \in {"User is not a verified Artisan", "User is blacklisted"} -> "PolicyViolation"
      [] outcome = "7 days have not passed since job completion" -> "TimingNotElapsed"
      [] outcome = "Transfer failed" -> "TransferFailed"
      [] OTHER -> outcome

JobOps == {"assign_artisan", "apply_for_job", "start_job", "complete_job", "cancel_job",
           "auto_release_funds", "extend_deadline", "increase_budget"}

\* the outcomes of a job-addressed operation, over its remaining arguments
Outcomes(op, caller, job_id, authed) ==
    CASE op = "assign_artisan" ->
            { assign_artisan_outcome(caller, job_id, a, authed) : a \in Addresses }
      [] op = "apply_for_job" -> { apply_for_job_outcome(caller, job_id, authed) }
      [] op = "start_job" -> { start_job_outcome(caller, job_id, authed) }
      [] op = "complete_job" -> { complete_job_outcome(caller, job_id, authed) }
      [] op = "cancel_job" -> { cancel_job_outcome(caller, job_id, authed) }
      [] op = "auto_release_funds" -> { auto_release_funds_outcome(caller, job_id, authed) }
      [] op = "extend_deadline" -> { extend_deadline_outcome(caller, job_id, authed) }
      [] op = "increase_budget" ->
            { increase_budget_outcome(caller, job_id, x, authed) : x \in Amounts }

\* the argument an operation takes besides the caller and the job id
Args(op) ==
    CASE op = "assign_artisan" -> Addresses
      [] op = "extend_deadline" -> ExtraTimes
      [] op = "increase_budget" -> Amounts
      [] OTHER -> {None}

\* the step is a call of op on job j that returns
StepOf(op, c, j, arg) ==
    CASE op = "assign_artisan" -> assign_artisan(c[1], j, arg, c[2])
      [] op = "apply_for_job" -> apply_for_job(c[1], j, c[2])
      [] op = "start_job" -> start_job(c[1], j, c[2])
      [] op = "complete_job" -> complete_job(c[1], j, c[2])
      [] op = "cancel_job" -> cancel_job(c[1], j, c[2])
      [] op = "auto_release_funds" -> auto_release_funds(c[1], j, c[2])
      [] op = "extend_deadline" -> extend_deadline(c[1], j, arg, c[2])
      [] op = "increase_budget" -> increase_budget(c[1], j, arg, c[2])

\* the outcome of a call of op on job j
Outcome(op, caller, j, arg, authed) ==
    CASE op = "assign_artisan" -> assign_artisan_outcome(caller, j, arg, authed)
      [] op = "apply_for_job" -> apply_for_job_outcome(caller, j, authed)
      [] op = "start_job" -> start_job_outcome(caller, j, authed)
      [] op = "complete_job" -> complete_job_outcome(caller, j, authed)
      [] op = "cancel_job" -> cancel_job_outcome(caller, j, authed)
      [] op = "auto_release_funds" -> auto_release_funds_outcome(caller, j, authed)
      [] op = "extend_deadline" -> extend_deadline_outcome(caller, j, authed)
      [] op = "increase_budget" -> increase_budget_outcome(caller, j, arg, authed)

\* the transition table: the statuses an operation is legal in
LegalIn(op) ==
    CASE op \in {"assign_artisan", "apply_for_job", "cancel_job"} -> {"Open"}
      [] op = "start_job" -> {"Assigned"}
      [] op = "complete_job" -> {"InProgress"}
      [] op = "auto_release_funds" -> {"PendingReview"}
      [] op \in {"extend_deadline", "increase_budget"} ->
            {"Open", "Assigned", "InProgress", "PendingReview", "Disputed"}

\* ================================================================ properties
Terminal(status) == status \in {"Completed", "Cancelled"}

RECURSIVE SumPaid(_)
SumPaid(seq) == IF seq = << >> THEN 0 ELSE Head(seq).amount + SumPaid(Tail(seq))

\* a property of the steps that change the stored state (the others change nothing)
Changing(effect) == UNCHANGED stored \/ effect

\* what the contract holds for a job: transferred in minus transferred out
Custody(id) == received[id] - SumPaid(paid[id])

\* ---------------------------------------------------------------- C1
\* C1 as stated: for every job, also a Cancelled or Completed one, the amount
\* field equals what the contract holds in custody for that job.
C1_AmountEqualsCustodyAlways ==
    \A id \in DOMAIN jobs : jobs[id].amount = Custody(id)

\* C1 as amended: while a job is neither Cancelled nor Completed its amount equals
\* what the contract holds for it (everything transferred in, nothing out yet);
\* once Cancelled or Completed the contract holds nothing for it and the amount
\* field keeps the value that was disbursed.
C1_AmountIsCustodyUntilDisbursed ==
    \A id \in DOMAIN jobs :
        /\ jobs[id].amount = received[id]
        /\ ~Terminal(jobs[id].status) => paid[id] = << >> /\ jobs[id].amount = Custody(id)
        /\ Terminal(jobs[id].status) => Custody(id) = 0 /\ SumPaid(paid[id]) = jobs[id].amount

C1_Witness ==
    \E i \in DOMAIN jobs :
        /\ jobs[i].status = "Completed" /\ jobs[i].amount = MaxAmount + 1
        /\ balance[jobs[i].token][Market] = 0

\* ---------------------------------------------------------------- C2
\* C2: each job's escrow is disbursed at most once: at most one transfer out per
\* job, for the full amount, to the finder of a Cancelled job or to the assigned
\* artisan of a Completed job; a job that is not terminal has none.
C2_DisbursedAtMostOnce ==
    \A id \in DOMAIN jobs :
        /\ Len(paid[id]) <= 1
        /\ Len(paid[id]) = 0 <=> ~Terminal(jobs[id].status)
        /\ Len(paid[id]) = 1 =>
              /\ paid[id][1].amount = jobs[id].amount
              /\ \/ jobs[id].status = "Cancelled" /\ paid[id][1].to = jobs[id].finder
                 \/ jobs[id].status = "Completed" /\ paid[id][1].to = jobs[id].artisan

C2_Witness ==
    \E i \in DOMAIN jobs :
        /\ jobs[i].status = "Completed" /\ jobs[i].finder = "finder"
        /\ paid[i] = <<[to |-> "artisan", amount |-> MaxAmount]>>

\* ---------------------------------------------------------------- C4
\* C4 as stated: artisan is set if and only if the status is not Open.
C4_ArtisanIffNotOpen ==
    \A id \in DOMAIN jobs : (jobs[id].artisan # None) <=> (jobs[id].status # "Open")

\* C4 as amended: artisan is set if and only if the status is neither Open nor
\* Cancelled (a job is cancelled from Open, before any artisan is assigned).
C4_ArtisanIffAssigned ==
    \A id \in DOMAIN jobs :
        (jobs[id].artisan # None) <=> (jobs[id].status \notin {"Open", "Cancelled"})

C4_Witness ==
    \E i \in DOMAIN jobs :
        /\ jobs[i].status = "Cancelled" /\ jobs[i].artisan = None
        /\ jobs[i].amount > 0 /\ registry_contract # None


\* ---------------------------------------------------------------- C3
C3_TerminalRejects ==
    \A id \in DOMAIN jobs : Terminal(jobs[id].status) =>
        \A op \in JobOps, c \in Addresses, au \in BOOLEAN :
            OK \notin Outcomes(op, c, id, au)

C3_TerminalFrozen ==
    \A id \in DOMAIN jobs : Terminal(jobs[id].status) =>
        /\ id \in DOMAIN jobs' /\ jobs'[id] = jobs[id]
        /\ received'[id] = received[id] /\ paid'[id] = paid[id]

\* C3: once a job is Completed or Cancelled, every operation addressed to it
\* aborts, for every caller and argument, and its record and the transfers made
\* for it never change again.
C3_TerminalIsFinal == []C3_TerminalRejects /\ [][Changing(C3_TerminalFrozen)]_vars

C3_Witness ==
    \E i \in DOMAIN jobs :
        /\ jobs[i].status = "Completed" /\ jobs[i].amount > 0 /\ jobs[i].deadline > 0
        /\ registry_contract # None /\ now > release_time(jobs[i])

\* ---------------------------------------------------------------- C5
IllegalPairs == { <<id, op>> \in (DOMAIN jobs) \X JobOps : jobs[id].status \notin LegalIn(op) }

\* C5 as stated (for authenticated callers): an operation that is not legal in the
\* job's status aborts with InvalidState, NotOwner or PolicyViolation.
C5_IllegalAbortsWithListedKinds ==
    \A p \in IllegalPairs, c \in Addresses :
        \A r \in Outcomes(p[2], c, p[1], TRUE) :
            ErrorKind(r) \in {"InvalidState", "NotOwner", "PolicyViolation"}

C5_IllegalAborts ==
    \A p \in IllegalPairs, c \in Addresses :
        /\ \A r \in Outcomes(p[2], c, p[1], TRUE) :
              /\ ErrorKind(r) \in {"InvalidState", "NotOwner", "PolicyViolation", "NotInitialized"}
              /\ ErrorKind(r) = "NotInitialized" =>
                    registry_contract = None /\ p[2] \in {"assign_artisan", "apply_for_job"}
        /\ OK \notin Outcomes(p[2], c, p[1], FALSE)

\* a job record changes only by a transition the table lists, and no balance
\* moves in a step that changes no job
C5_OnlyLegalChanges ==
    /\ \A id \in DOMAIN jobs : jobs'[id] # jobs[id] =>
          \/ <<jobs[id].status, jobs'[id].status>> \in
                {<<"Open", "Assigned">>, <<"Open", "Cancelled">>, <<"Assigned", "InProgress">>,
                 <<"InProgress", "PendingReview">>, <<"PendingReview", "Completed">>}
          \/ /\ jobs'[id].status = jobs[id].status /\ ~Terminal(jobs[id].status)
             /\ jobs'[id] = [jobs[id] EXCEPT !.deadline = jobs'[id].deadline,
                                              !.amount = jobs'[id].amount]
             /\ jobs'[id].deadline >= jobs[id].deadline
             /\ jobs'[id].amount >= jobs[id].amount
    /\ jobs' = jobs => balance' = balance

\* C5 as amended: an operation that is not legal in the job's status aborts: for
\* an authenticated caller with InvalidState, NotOwner or PolicyViolation, or with
\* NotInitialized when it is assign_artisan or apply_for_job and the Registry
\* address is unset; for an unauthenticated caller it aborts as well; a job record
\* changes only by a listed transition and no balance moves otherwise.
C5_IllegalPairsAbort == []C5_IllegalAborts /\ [][Changing(C5_OnlyLegalChanges)]_vars

C5_Witness ==
    \E k \in DOMAIN jobs :
        /\ jobs[k].status = "InProgress" /\ registry_contract # None
        /\ start_job_outcome(jobs[k].artisan, k, TRUE) = "Job is not assigned"
        /\ cancel_job_outcome(jobs[k].finder, k, TRUE) = "Job is not open"
        /\ apply_for_job_outcome("artisan", k, TRUE) = "Job is not open"
        /\ auto_release_funds_outcome(jobs[k].artisan, k, TRUE)
              = "Job is not in PendingReview status"

\* ---------------------------------------------------------------- C6
C6_ReleaseIff ==
    \A id \in DOMAIN jobs, a \in Addresses :
        (auto_release_funds_outcome(a, id, TRUE) = OK)
            <=> /\ jobs[id].status = "PendingReview"
                /\ a = jobs[id].artisan
                /\ now > jobs[id].end_time + SevenDays

C6_ReleaseEffect ==
    \A id \in DOMAIN jobs :
        \/ jobs[id].status # "Completed" /\ jobs'[id].status = "Completed"
        \/ jobs[id].status = "PendingReview" /\ jobs'[id].status # "PendingReview"
        =>
        LET job == jobs[id] IN
        /\ job.status = "PendingReview" /\ now > job.end_time + SevenDays
        /\ jobs'[id] = [job EXCEPT !.status = "Completed"]
        /\ balance'[job.token][job.artisan] = balance[job.token][job.artisan] + job.amount
        /\ balance'[job.token][Market] = balance[job.token][Market] - job.amount
        /\ \A h \in Holders \ {job.artisan, Market} : balance'[job.token][h] = balance[job.token][h]
        /\ paid'[id] = <<[to |-> job.artisan, amount |-> job.amount]>>

\* C6: an authenticated auto_release_funds(artisan, job_id) on a stored job succeeds
\* if and only if the status is PendingReview, the caller is job.artisan and
\* now > end_time + 604800; when it succeeds it moves exactly job.amount from the
\* contract to the artisan, nothing is withheld, and only the status changes, to
\* Completed.
C6_AutoRelease == []C6_ReleaseIff /\ [][Changing(C6_ReleaseEffect)]_vars

C6_Witness ==
    \E i \in DOMAIN jobs :
        /\ jobs[i].status = "Completed" /\ jobs[i].amount = MaxAmount + 1
        /\ paid[i] = <<[to |-> "artisan", amount |-> MaxAmount + 1]>>
        /\ balance[jobs[i].token]["artisan"] >= MaxAmount + 1

\* ---------------------------------------------------------------- C7
\* C7: for a PendingReview job, auto_release_funds by the assigned artisan aborts
\* with TimingNotElapsed at every clock value now <= end_time + 604800, the value
\* end_time + 604800 included, and succeeds at end_time + 604801; the threshold
\* is the same constant for every job.
C7_Threshold ==
    \A id \in DOMAIN jobs : jobs[id].status = "PendingReview" =>
        LET r == auto_release_funds_outcome(jobs[id].artisan, id, TRUE) IN
        /\ now <= jobs[id].end_time + 604800 => ErrorKind(r) = "TimingNotElapsed"
        /\ now >= jobs[id].end_time + 604801 => r = OK
        /\ r = OK => now >= jobs[id].end_time + 604801

C7_Witness ==
    \E i \in DOMAIN jobs :
        /\ jobs[i].status = "PendingReview" /\ now = jobs[i].end_time + 604800
        /\ jobs[i].amount > 0

\* ---------------------------------------------------------------- C8
C8_IdsAreOneToCounter ==
    /\ DOMAIN jobs = 1 .. job_counter
    /\ \A id \in DOMAIN jobs : jobs[id].id = id

C8_CounterStep ==
    /\ job_counter' \in {job_counter, job_counter + 1}
    /\ \A id \in DOMAIN jobs :
          /\ id \in DOMAIN jobs'
          /\ jobs'[id].id = jobs[id].id /\ jobs'[id].finder = jobs[id].finder
    /\ job_counter' = job_counter + 1 =>
          /\ DOMAIN jobs' = DOMAIN jobs \cup {job_counter'}
          /\ jobs'[job_counter'].status = "Open"
          /\ \A id \in DOMAIN jobs : jobs'[id] = jobs[id]

\* C8: job ids are 1, 2, ..., N without gaps or reuse: a record is stored for id
\* exactly when 1 <= id <= JobCounter, each create_job that succeeds stores the
\* id JobCounter + 1 and makes it the counter, no other step moves the counter,
\* and a stored record is never deleted or re-keyed.
C8_IdsStrictlyIncreasing == []C8_IdsAreOneToCounter /\ [][Changing(C8_CounterStep)]_vars

C8_Witness ==
    /\ job_counter = 2
    /\ jobs[1].status = "Cancelled" /\ jobs[1].id = 1
    /\ jobs[2].status = "Open" /\ jobs[2].id = 2 /\ jobs[2].finder # jobs[1].finder

\* ---------------------------------------------------------------- C9
\* C9: a create_job that succeeds stores, under the new id, a record with the
\* finder, token and amount it was called with, status Open, artisan None and
\* start_time = end_time = deadline = 0, and moves exactly that amount from
\* the finder's balance to the contract's balance; no other balance changes.
C9_CreateEffect ==
    job_counter' # job_counter =>
        LET job == jobs'[job_counter'] IN
        /\ job = [id |-> job_counter + 1, finder |-> job.finder, artisan |-> None,
                  token |-> job.token, amount |-> job.amount, status |-> "Open",
                  start_time |-> 0, end_time |-> 0, deadline |-> 0]
        /\ job.finder \in Addresses /\ job.token \in Tokens
        /\ balance'[job.token][job.finder] = balance[job.token][job.finder] - job.amount
        /\ balance'[job.token][Market] = balance[job.token][Market] + job.amount
        /\ \A t \in Tokens, h \in Holders :
              (t # job.token \/ h \notin {job.finder, Market}) => balance'[t][h] = balance[t][h]
        /\ received'[job_counter'] = job.amount /\ paid'[job_counter'] = << >>

C9_CreateJob == [][Changing(C9_CreateEffect)]_vars

C9_Witness ==
    /\ job_counter = 1
    /\ jobs[1] = [id |-> 1, finder |-> "finder", artisan |-> None, token |-> "tok",
                  amount |-> MaxAmount, status |-> "Open",
                  start_time |-> 0, end_time |-> 0, deadline |-> 0]
    /\ balance["tok"]["finder"] = 1 /\ balance["tok"][Market] = MaxAmount

\* ---------------------------------------------------------------- C10
C10_CancelOutcome ==
    \A id \in DOMAIN jobs, c \in Addresses :
        LET r == cancel_job_outcome(c, id, TRUE) IN
        /\ c # jobs[id].finder => ErrorKind(r) = "NotOwner"
        /\ c = jobs[id].finder /\ jobs[id].status = "Open" => r = OK
        /\ r = OK => c = jobs[id].finder /\ jobs[id].status = "Open"

C10_CancelEffect ==
    \A id \in DOMAIN jobs :
        \/ jobs[id].status # "Cancelled" /\ jobs'[id].status = "Cancelled"
        \/ Len(paid'[id]) > Len(paid[id]) /\ jobs[id].status = "Open"
        =>
        LET job == jobs[id] IN
        /\ job.status = "Open"
        /\ jobs'[id] = [job EXCEPT !.status = "Cancelled"]
        /\ job.amount = received[id]
        /\ balance'[job.token][job.finder] = balance[job.token][job.finder] + received[id]
        /\ balance'[job.token][Market] = balance[job.token][Market] - received[id]
        /\ \A h \in Holders \ {job.finder, Market} : balance'[job.token][h] = balance[job.token][h]
        /\ paid'[id] = <<[to |-> job.finder, amount |-> received[id]]>>

\* C10: an authenticated cancel_job on an Open job by the job's finder succeeds:
\* it moves the job's current amount, which is everything locked for the job at
\* creation and by budget increases, from the contract to the finder and sets
\* the status to Cancelled, changing nothing else; a call by any other identity
\* aborts as NotOwner, so nothing is refunded.
C10_CancelJob == []C10_CancelOutcome /\ [][Changing(C10_CancelEffect)]_vars

C10_Witness ==
    \E i \in DOMAIN jobs :
        /\ jobs[i].status = "Cancelled" /\ jobs[i].finder = "finder"
        /\ jobs[i].amount = MaxAmount + 1
        /\ paid[i] = <<[to |-> "finder", amount |-> MaxAmount + 1]>>
        /\ balance[jobs[i].token]["finder"] = MaxAmount + 1

\* ---------------------------------------------------------------- C11
\* C11 as stated: once a job has an artisan, every further assign_artisan on it,
\* by whatever caller, aborts with InvalidState.
C11_FurtherAssignIsInvalidState ==
    \A id \in DOMAIN jobs : jobs[id].artisan # None =>
        \A c \in Addresses, a \in Addresses :
            ErrorKind(assign_artisan_outcome(c, id, a, TRUE)) = "InvalidState"

C11_FurtherAssignAborts ==
    \A id \in DOMAIN jobs : jobs[id].artisan # None =>
        /\ jobs[id].status # "Open"
        /\ \A c \in Addresses, a \in Addresses :
              /\ c = jobs[id].finder =>
                    ErrorKind(assign_artisan_outcome(c, id, a, TRUE)) = "InvalidState"
              /\ c # jobs[id].finder =>
                    ErrorKind(assign_artisan_outcome(c, id, a, TRUE)) = "NotOwner"
              /\ assign_artisan_outcome(c, id, a, FALSE) # OK

C11_ArtisanKept ==
    \A id \in DOMAIN jobs : jobs[id].artisan # None => jobs'[id].artisan = jobs[id].artisan

\* C11 as amended: assign_artisan succeeds at most once per job: once the job has
\* an artisan its status is no longer Open and every further assign_artisan on it
\* aborts, with InvalidState when called by the job's finder and with NotOwner
\* when called by anyone else, so job.artisan, once set, never changes.
C11_AssignedOnce == []C11_FurtherAssignAborts /\ [][Changing(C11_ArtisanKept)]_vars

C11_Witness ==
    \E i \in DOMAIN jobs :
        /\ jobs[i].status = "Assigned" /\ jobs[i].artisan = "artisan"
        /\ assign_artisan_outcome(jobs[i].finder, i, "artisan", TRUE) = "Job is not open"
        /\ assign_artisan_outcome("guest", i, "artisan", TRUE) = "Not job owner"

\* ---------------------------------------------------------------- C12
\* the kind the role gate gives for a candidate: NotFound without a profile,
\* PolicyViolation for a role other than Artisan or a blacklisted profile
C12_GateKind(a) ==
    IF ~profiles[a].present THEN "NotFound"
    ELSE IF profiles[a].role # 3 \/ profiles[a].is_blacklisted THEN "PolicyViolation"
    ELSE OK

\* C12 as stated: on an Open job, assign_artisan by the job's finder and
\* apply_for_job abort as NotFound for a candidate without a profile and with
\* PolicyViolation for a candidate whose role is not 3 or who is blacklisted.
C12_RoleGateOnOpenJob ==
    \A id \in DOMAIN jobs, a \in Addresses :
        jobs[id].status = "Open" /\ C12_GateKind(a) # OK =>
            /\ ErrorKind(assign_artisan_outcome(jobs[id].finder, id, a, TRUE)) = C12_GateKind(a)
            /\ ErrorKind(apply_for_job_outcome(a, id, TRUE)) = C12_GateKind(a)

C12_RoleGateOnceInitialized ==
    \A id \in DOMAIN jobs, a \in Addresses :
        jobs[id].status = "Open" =>
            /\ jobs[id].artisan = None
            /\ registry_contract # None =>
                  /\ ErrorKind(assign_artisan_outcome(jobs[id].finder, id, a, TRUE)) = C12_GateKind(a)
                  /\ ErrorKind(apply_for_job_outcome(a, id, TRUE)) = C12_GateKind(a)
            /\ registry_contract = None =>
                  /\ ErrorKind(assign_artisan_outcome(jobs[id].finder, id, a, TRUE)) = "NotInitialized"
                  /\ ErrorKind(apply_for_job_outcome(a, id, TRUE)) = "NotInitialized"

C12_OnlyEligibleAssigned ==
    /\ profiles' = profiles
    /\ \A id \in DOMAIN jobs : jobs'[id].artisan # jobs[id].artisan =>
          /\ jobs[id].status = "Open" /\ jobs'[id].status = "Assigned"
          /\ profiles[jobs'[id].artisan].present
          /\ profiles[jobs'[id].artisan].role = 3
          /\ ~profiles[jobs'[id].artisan].is_blacklisted

\* C12 as amended: once the Registry address is set, on an Open job
\* assign_artisan by the job's finder and apply_for_job abort as NotFound when the
\* candidate has no Registry profile and with PolicyViolation when the profile's
\* role is not 3 or is_blacklisted is true (and succeed otherwise); while the
\* address is unset both abort as NotInitialized. An Open job has artisan None,
\* only a candidate that passes the gate is ever assigned, and the marketplace
\* never modifies the Registry's profiles.
C12_RoleGate == []C12_RoleGateOnceInitialized /\ [][C12_OnlyEligibleAssigned]_vars

C12_Witness ==
    \E i \in DOMAIN jobs :
        /\ jobs[i].status = "Open" /\ jobs[i].artisan = None /\ jobs[i].finder = "finder"
        /\ assign_artisan_outcome("finder", i, "guest", TRUE) = "User not found"
        /\ assign_artisan_outcome("finder", i, "finder", TRUE) = "User is not a verified Artisan"
        /\ assign_artisan_outcome("finder", i, "banned", TRUE) = "User is blacklisted"
        /\ apply_for_job_outcome("guest", i, TRUE) = "User not found"
        /\ apply_for_job_outcome("banned", i, TRUE) = "User is blacklisted"

\* ---------------------------------------------------------------- C13
RECURSIVE SumOver(_, _)
\* the sum of f[i] over a finite set of indices
SumOver(f, ids) ==
    IF ids = {} THEN 0
    ELSE LET i == CHOOSE x \in ids : TRUE IN f[i] + SumOver(f, ids \ {i})

\* what holder h has locked for its jobs of token t, and what was paid out to it
LockedBy(h, t) ==
    SumOver(received, {id \in DOMAIN jobs : jobs[id].finder = h /\ jobs[id].token = t})

PaidTo(h, t) ==
    SumOver([id \in DOMAIN jobs |->
                SumPaid(SelectSeq(paid[id], LAMBDA p : p.to = h))],
            {id \in DOMAIN jobs : jobs[id].token = t})

C13_AmountIsTotalLocked ==
    /\ \A id \in DOMAIN jobs :
          /\ jobs[id].amount = received[id]
          /\ \A b \in Amounts :
                (~Terminal(jobs[id].status) /\ b >= 0
                    /\ balance[jobs[id].token][jobs[id].finder] >= b)
                => increase_budget_outcome(jobs[id].finder, id, b, TRUE) = OK
    /\ \A t \in Tokens, h \in Addresses :
          balance[t][h] = minted(h) - LockedBy(h, t) + PaidTo(h, t)
    /\ \A t \in Tokens :
          balance[t][Market] = SumOver([id \in DOMAIN jobs |-> Custody(id)],
                                     {id \in DOMAIN jobs : jobs[id].token = t})

C13_IncreaseStep ==
    \A id \in DOMAIN jobs : jobs'[id].amount # jobs[id].amount =>
        LET job == jobs[id]
            b == jobs'[id].amount - job.amount
        IN
        /\ b > 0 /\ ~Terminal(job.status)
        /\ jobs'[id] = [job EXCEPT !.amount = job.amount + b]
        /\ received'[id] = received[id] + b /\ paid' = paid
        /\ balance'[job.token][Market] = balance[job.token][Market] + b
        /\ balance'[job.token][job.finder] = balance[job.token][job.finder] - b
        /\ \A h \in Holders \ {job.finder, Market} : balance'[job.token][h] = balance[job.token][h]

\* C13: increase_budget is additive: a job's amount is the amount of create_job
\* plus every amount added since; the contract's balance has risen and the
\* finder's balance has fallen by exactly what was locked; a call by the finder
\* succeeds in every status that is not Completed or Cancelled (given an amount
\* the finder can pay) and changes the amount only, never the status.
C13_IncreaseBudgetAdditive ==
    []C13_AmountIsTotalLocked /\ [][Changing(C13_IncreaseStep)]_vars

C13_Witness ==
    \E i \in DOMAIN jobs :
        /\ jobs[i].status = "PendingReview" /\ jobs[i].amount = MaxAmount + 1
        /\ jobs[i].finder = "finder" /\ balance[jobs[i].token]["finder"] = 0
        /\ balance[jobs[i].token][Market] = MaxAmount + 1
        /\ increase_budget_outcome("finder", i, 0, TRUE) = OK

\* ---------------------------------------------------------------- C14
C14_OnlyFinderExtends ==
    \A id \in DOMAIN jobs, c \in Addresses :
        LET r == extend_deadline_outcome(c, id, TRUE) IN
        /\ c # jobs[id].finder => ErrorKind(r) = "NotOwner"
        /\ c = jobs[id].finder /\ ~Terminal(jobs[id].status) => r = OK
        /\ \E k \in 0 .. (MaxExtensions + 2) : jobs[id].deadline = k * ExtraUnit

\* whether each authenticated call succeeds is settled by the status, the
\* caller, the profiles, the clock and the balances, whatever the deadline is
C14_DeadlineNotRead ==
    \A id \in DOMAIN jobs, c \in Addresses :
        LET job == jobs[id] IN
        /\ \A a \in Addresses :
              assign_artisan_outcome(c, id, a, TRUE) = OK
                <=> /\ registry_contract # None /\ c = job.finder /\ job.status = "Open"
                    /\ role_gate(a) = OK
        /\ apply_for_job_outcome(c, id, TRUE) = OK
              <=> registry_contract # None /\ job.status = "Open" /\ role_gate(c) = OK
        /\ start_job_outcome(c, id, TRUE) = OK <=> job.status = "Assigned" /\ c = job.artisan
        /\ complete_job_outcome(c, id, TRUE) = OK <=> job.status = "InProgress" /\ c = job.artisan
        /\ cancel_job_outcome(c, id, TRUE) = OK <=> job.status = "Open" /\ c = job.finder
        /\ auto_release_funds_outcome(c, id, TRUE) = OK
              <=> job.status = "PendingReview" /\ c = job.artisan /\ now > job.end_time + SevenDays
        /\ \A b \in Amounts :
              increase_budget_outcome(c, id, b, TRUE) = OK
                <=> /\ c = job.finder /\ ~Terminal(job.status)
                    /\ b >= 0 /\ balance[job.token][c] >= b

\* a step that changes a deadline adds one extra_time to it and changes nothing else
C14_DeadlineStep ==
    \A id \in DOMAIN jobs : jobs'[id].deadline # jobs[id].deadline =>
        /\ (jobs'[id].deadline - jobs[id].deadline) \in ExtraTimes
        /\ ~Terminal(jobs[id].status)
        /\ jobs' = [jobs EXCEPT ![id].deadline = jobs[id].deadline
                                    + (jobs'[id].deadline - jobs[id].deadline)]
        /\ UNCHANGED <<registry_contract, job_counter, balance, profiles, received, paid>>

\* C14: extend_deadline accumulates: the deadline starts at 0 and changes only by
\* a successful extend_deadline, which adds its extra_time to it (86400 then
\* 172800 gives 259200); only the job's finder can extend; no guard reads the
\* deadline: whether a call succeeds is settled without it.
C14_DeadlineAccumulates ==
    []C14_OnlyFinderExtends /\ []C14_DeadlineNotRead /\ [][Changing(C14_DeadlineStep)]_vars

C14_Witness ==
    \E i \in DOMAIN jobs :
        /\ jobs[i].deadline = 259200 /\ jobs[i].status = "InProgress"
        /\ extend_deadline_outcome(jobs[i].finder, i, TRUE) = OK
        /\ extend_deadline_outcome(jobs[i].artisan, i, TRUE) = "Not job owner"

\* ---------------------------------------------------------------- C15
\* C15: the end-to-end scenario runs through: at each stage the next call of the
\* scenario succeeds (assign_artisan of an eligible artisan by the finder on an
\* Open job of an initialized market, start_job and complete_job by the assigned
\* artisan, auto_release_funds from 604801 seconds past end_time), and a Completed
\* job has been paid in full to its artisan, the contract keeping nothing for it:
\* with every job finished the contract's balance is 0.
C15_ScenarioRuns ==
    /\ \A id \in DOMAIN jobs :
          LET job == jobs[id] IN
          /\ job.status = "Open" /\ registry_contract # None =>
                assign_artisan_outcome(job.finder, id, "artisan", TRUE) = OK
          /\ job.status = "Assigned" => start_job_outcome(job.artisan, id, TRUE) = OK
          /\ job.status = "InProgress" => complete_job_outcome(job.artisan, id, TRUE) = OK
          /\ job.status = "PendingReview" /\ now >= job.end_time + 604801 =>
                auto_release_funds_outcome(job.artisan, id, TRUE) = OK
          /\ job.status = "Completed" =>
                /\ paid[id] = <<[to |-> job.artisan, amount |-> job.amount]>>
                /\ job.end_time >= job.start_time
                /\ job.artisan # job.finder =>
                      balance[job.token][job.artisan]
                         >= minted(job.artisan) - LockedBy(job.artisan, job.token) + job.amount
    /\ (\A id \in DOMAIN jobs : Terminal(jobs[id].status)) =>
          \A t \in Tokens : balance[t][Market] = 0

C15_Witness ==
    /\ job_counter = 1
    /\ jobs[1] = [id |-> 1, finder |-> "finder", artisan |-> "artisan", token |-> "tok",
                  amount |-> MaxAmount, status |-> "Completed",
                  start_time |-> 0, end_time |-> 0, deadline |-> 0]
    /\ received[1] = MaxAmount /\ now = 604801
    /\ balance["tok"]["artisan"] = minted("artisan") + MaxAmount
    /\ balance["tok"][Market] = 0

\* ---------------------------------------------------------------- C16
C16_InitializeOutcome ==
    /\ registry_contract = None => initialize_outcome = OK
    /\ registry_contract # None =>
          /\ ErrorKind(initialize_outcome) = "AlreadyInitialized"
          /\ registry_contract = Registry

C16_RegistryKept ==
    /\ registry_contract # None => registry_contract' = registry_contract
    /\ registry_contract' # registry_contract =>
          /\ registry_contract = None /\ registry_contract' = Registry
          /\ UNCHANGED <<job_counter, jobs, balance, profiles, received, paid>>

\* C16: initialize succeeds exactly once: while the Registry address is unset
\* the call succeeds and stores the address it is given; once it is set every
\* initialize aborts as AlreadyInitialized and no step of any operation changes
\* the stored address.
C16_InitializeOnce == []C16_InitializeOutcome /\ [][C16_RegistryKept]_vars

C16_Witness ==
    /\ registry_contract = Registry /\ initialize_outcome = "Already initialized"
    /\ \E i \in DOMAIN jobs : jobs[i].status = "InProgress" /\ jobs[i].deadline > 0

\* ---------------------------------------------------------------- C17
\* the job-addressed operations that verify no role
C17_UngatedOps == JobOps \ {"assign_artisan", "apply_for_job"}

C17_WhileUnset ==
    registry_contract = None =>
        /\ \A j \in 1 .. (job_counter + 1), c \in Addresses :
              /\ \A a \in Addresses, au \in BOOLEAN :
                    ErrorKind(assign_artisan_outcome(c, j, a, au)) = "NotInitialized"
              /\ ErrorKind(apply_for_job_outcome(c, j, TRUE)) = "NotInitialized"
              /\ apply_for_job_outcome(c, j, FALSE) # OK
        /\ \A id \in DOMAIN jobs :
              /\ jobs[id].artisan = None /\ jobs[id].status \in {"Open", "Cancelled"}
              /\ jobs[id].status = "Open" =>
                    /\ cancel_job_outcome(jobs[id].finder, id, TRUE) = OK
                    /\ extend_deadline_outcome(jobs[id].finder, id, TRUE) = OK
                    /\ increase_budget_outcome(jobs[id].finder, id, 0, TRUE) = OK
        /\ \A c \in Creators, t \in Tokens, a \in Amounts :
              a >= 0 /\ balance[t][c] >= a => create_job_outcome(c, t, a, TRUE) = OK

\* the step that sets the Registry address changes the outcome of no call of an
\* operation that verifies no role
C17_SettingChangesNoOutcome ==
    registry_contract' # registry_contract =>
        /\ \A op \in C17_UngatedOps, c \in Calls, j \in 1 .. (job_counter + 1) :
              Outcomes(op, c[1], j, c[2])' = Outcomes(op, c[1], j, c[2])
        /\ \A c \in CreatorCalls, t \in Tokens, a \in Amounts :
              create_job_outcome(c[1], t, a, c[2])' = create_job_outcome(c[1], t, a, c[2])

\* C17: while the Registry address is unset, assign_artisan and apply_for_job
\* abort as NotInitialized for every job id, stored or not, and every
\* authenticated caller, so no job gets an artisan; create_job, cancel_job,
\* extend_deadline and increase_budget succeed all the same, and setting the
\* address changes the outcome of no call of create_job, start_job, complete_job,
\* cancel_job, auto_release_funds, extend_deadline or increase_budget.
C17_NotInitialized == []C17_WhileUnset /\ [][C17_SettingChangesNoOutcome]_vars

C17_Witness ==
    /\ registry_contract = None /\ job_counter = 1
    /\ jobs[1].status = "Open" /\ jobs[1].amount = MaxAmount + 1 /\ jobs[1].deadline > 0
    /\ assign_artisan_outcome(jobs[1].finder, 1, "artisan", TRUE) = "Contract not initialized"
    /\ apply_for_job_outcome("artisan", 1, TRUE) = "Contract not initialized"
    /\ apply_for_job_outcome("artisan", 2, TRUE) = "Contract not initialized"

\* ---------------------------------------------------------------- C18
\* a call that aborts takes no step at all: nothing stored and no event changes
C18_AbortedCallsTakeNoStep ==
    /\ \A c \in Creators, t \in Tokens, a \in Amounts :
          /\ create_job_outcome(c, t, a, TRUE) # OK => ~ENABLED create_job(c, t, a, TRUE)
          /\ a < 0 \/ balance[t][c] < a =>
                ErrorKind(create_job_outcome(c, t, a, TRUE)) = "TransferFailed"
    /\ \A id \in DOMAIN jobs, c \in Addresses :
          /\ \A a \in Amounts :
                /\ increase_budget_outcome(c, id, a, TRUE) # OK =>
                      ~ENABLED increase_budget(c, id, a, TRUE)
                /\ (c = jobs[id].finder /\ ~Terminal(jobs[id].status)
                       /\ (a < 0 \/ balance[jobs[id].token][c] < a)) =>
                      ErrorKind(increase_budget_outcome(c, id, a, TRUE)) = "TransferFailed"
          /\ cancel_job_outcome(c, id, TRUE) # OK => ~ENABLED cancel_job(c, id, TRUE)
          /\ auto_release_funds_outcome(c, id, TRUE) # OK =>
                ~ENABLED auto_release_funds(c, id, TRUE)
          /\ apply_for_job_outcome(c, id, TRUE) # OK => ~ENABLED apply_for_job(c, id, TRUE)
          /\ \A a \in Addresses :
                assign_artisan_outcome(c, id, a, TRUE) # OK =>
                    ~ENABLED assign_artisan(c, id, a, TRUE)

\* the steps that are taken are whole: a counter that moved comes with its
\* record, and funds that moved come with the record that accounts for them
C18_NoPartialEffect ==
    /\ job_counter' # job_counter <=> DOMAIN jobs' # DOMAIN jobs
    /\ balance' # balance => jobs' # jobs /\ (received' # received \/ paid' # paid)
    /\ received' # received \/ paid' # paid => jobs' # jobs

\* C18: all-or-nothing: a create_job or increase_budget whose transfer fails
\* (the amount is negative or more than the finder holds) aborts as
\* TransferFailed, and a call that aborts, for a failed transfer, a failed
\* Registry lookup or any other guard, takes no step: the counter, every job
\* record, every balance and the published events stay as they were, so a failed
\* create_job consumes no id; the steps that are taken apply their writes together.
C18_AllOrNothing == []C18_AbortedCallsTakeNoStep /\ [][C18_NoPartialEffect]_vars

C18_Witness ==
    /\ job_counter = 1 /\ jobs[1].status = "Open" /\ jobs[1].finder = "finder"
    /\ registry_contract # None
    /\ balance["tok"]["finder"] = 0
    /\ create_job_outcome("finder", "tok", MaxAmount, TRUE) = "Transfer failed"
    /\ increase_budget_outcome("finder", 1, MaxAmount, TRUE) = "Transfer failed"
    /\ assign_artisan_outcome("finder", 1, "guest", TRUE) = "User not found"

\* ---------------------------------------------------------------- C19
\* C19: no reachable state has a job with status Disputed: every stored job is
\* Open, Assigned, InProgress, PendingReview, Completed or Cancelled.
C19_NeverDisputed ==
    \A id \in DOMAIN jobs :
        /\ jobs[id].status \in JobStatus
        /\ jobs[id].status # "Disputed"

C19_Witness ==
    /\ \E i \in DOMAIN jobs :
          /\ jobs[i].status = "PendingReview" /\ jobs[i].deadline > 0
          /\ jobs[i].amount > 0 /\ now > release_time(jobs[i])
    /\ \A i \in DOMAIN jobs : jobs[i].status # "Disputed"

\* ---------------------------------------------------------------- C20
\* the event listed for the change a step makes to the record of job id
C20_EventFor(id) ==
    LET old == jobs[id]
        new == jobs'[id]
    IN
    CASE old.status = "Open" /\ new.status = "Assigned" ->
            [kind |-> "JobAssigned", id |-> id, artisan |-> new.artisan]
      [] old.status = "Assigned" /\ new.status = "InProgress" ->
            [kind |-> "JobStarted", id |-> id, artisan |-> old.artisan]
      [] old.status = "Open" /\ new.status = "Cancelled" ->
            [kind |-> "JobCancelled", id |-> id]
      [] old.status = "InProgress" /\ new.status = "PendingReview" ->
            [kind |-> "JobCompleted", id |-> id, artisan |-> old.artisan]
      [] old.status = "PendingReview" /\ new.status = "Completed" ->
            [kind |-> "FundsReleased", id |-> id, artisan |-> old.artisan,
             amount |-> balance'[old.token][old.artisan] - balance[old.token][old.artisan]]
      [] old.status = new.status /\ new.deadline # old.deadline ->
            [kind |-> "DeadlineExtended", id |-> id,
             extra_time |-> new.deadline - old.deadline, new_deadline |-> new.deadline]
      [] old.status = new.status /\ new.amount # old.amount ->
            [kind |-> "BudgetIncreased", id |-> id,
             added_amount |-> new.amount - old.amount, new_amount |-> new.amount]
      [] OTHER -> [kind |-> "none"]

\* the events a step publishes, by what the step does
C20_EventOfStep ==
    /\ registry_contract' # registry_contract => events' = << >>
    /\ now' # now => events' = events
    /\ job_counter' # job_counter =>
          events' = <<[kind |-> "JobCreated", id |-> job_counter',
                       amount |-> balance'[jobs'[job_counter'].token][Market]
                                    - balance[jobs'[job_counter'].token][Market]]>>
    /\ \A id \in DOMAIN jobs : jobs'[id] # jobs[id] => events' = <<C20_EventFor(id)>>
    /\ stored' = stored /\ events' # events =>
          \E id \in DOMAIN jobs :
              \/ /\ jobs[id].status = "Open"
                 /\ \E a \in Addresses :
                       /\ apply_for_job_outcome(a, id, TRUE) = OK
                       /\ events' = <<[kind |-> "JobApplication", id |-> id, artisan |-> a]>>
              \/ /\ increase_budget_outcome(jobs[id].finder, id, 0, TRUE) = OK
                 /\ events' = <<[kind |-> "BudgetIncreased", id |-> id, added_amount |-> 0,
                                 new_amount |-> jobs[id].amount]>>

\* a call that changes nothing stored publishes its event when it succeeds, and a
\* call that aborts takes no step, so it publishes nothing
C20_PublishedIffSucceeded ==
    /\ Len(events) <= 1
    /\ \A id \in DOMAIN jobs, c \in Addresses :
          /\ apply_for_job_outcome(c, id, TRUE) = OK <=>
                ENABLED (/\ apply_for_job(c, id, TRUE)
                         /\ events' = <<[kind |-> "JobApplication", id |-> id, artisan |-> c]>>)
          /\ apply_for_job_outcome(c, id, TRUE) = OK <=> ENABLED apply_for_job(c, id, TRUE)
          /\ start_job_outcome(c, id, TRUE) = OK <=> ENABLED start_job(c, id, TRUE)
          /\ complete_job_outcome(c, id, TRUE) = OK <=> ENABLED complete_job(c, id, TRUE)
          /\ \A x \in ExtraTimes :
                extend_deadline_outcome(c, id, TRUE) = OK <=> ENABLED extend_deadline(c, id, x, TRUE)

\* C20: every successful create_job, assign_artisan, apply_for_job, start_job,
\* cancel_job, complete_job, auto_release_funds, extend_deadline and
\* increase_budget publishes exactly one event, of the kind listed for it and
\* with the stored values (FundsReleased with the amount paid, DeadlineExtended
\* with the stored deadline, BudgetIncreased with the stored amount); initialize
\* publishes none, and a call that aborts publishes none.
C20_OneEventPerOperation == []C20_PublishedIffSucceeded /\ [][C20_EventOfStep]_vars

C20_Witness ==
    \E i \in DOMAIN jobs :
        /\ jobs[i].status = "Completed" /\ jobs[i].amount = MaxAmount + 1
        /\ events = <<[kind |-> "FundsReleased", id |-> i, artisan |-> jobs[i].artisan,
                       amount |-> MaxAmount + 1]>>

\* ---------------------------------------------------------------- C21
\* the fields of job id that a step changes
ChangedFields(id) == { f \in DOMAIN jobs[id] : jobs'[id][f] # jobs[id][f] }

\* a step that writes at most the given fields of job id and nothing else of the
\* contract's storage; balances may move only where funds is TRUE
C21_Writes(id, fields, funds) ==
    /\ DOMAIN jobs' = DOMAIN jobs
    /\ ChangedFields(id) \subseteq fields
    /\ \A i \in DOMAIN jobs \ {id} : jobs'[i] = jobs[i]
    /\ job_counter' = job_counter /\ registry_contract' = registry_contract
    /\ profiles' = profiles
    /\ ~funds => balance' = balance /\ received' = received /\ paid' = paid

\* each line reads 'a step of this operation on job j writes only these fields',
\* stated as 'the frame holds or the step is not one of this operation'
C21_FrameOfStep ==
    /\ \A id \in DOMAIN jobs :
          id \in DOMAIN jobs' /\ ChangedFields(id) \cap {"id", "finder", "token"} = {}
    /\ \/ UNCHANGED stored
       \/ \A j \in DOMAIN jobs :
            /\ \A c \in Calls : ~apply_for_job(c[1], j, c[2])
            /\ \/ C21_Writes(j, {"artisan", "status"}, FALSE)
               \/ \A c \in Calls, a \in Addresses : ~assign_artisan(c[1], j, a, c[2])
            /\ \/ C21_Writes(j, {"status", "start_time"}, FALSE)
               \/ \A c \in Calls : ~start_job(c[1], j, c[2])
            /\ \/ C21_Writes(j, {"status", "end_time"}, FALSE)
               \/ \A c \in Calls : ~complete_job(c[1], j, c[2])
            /\ \/ C21_Writes(j, {"status"}, TRUE)
               \/ \A c \in Calls : /\ ~cancel_job(c[1], j, c[2])
                                    /\ ~auto_release_funds(c[1], j, c[2])
            /\ \/ C21_Writes(j, {"deadline"}, FALSE)
               \/ \A c \in Calls, x \in ExtraTimes : ~extend_deadline(c[1], j, x, c[2])
            /\ \/ C21_Writes(j, {"amount"}, TRUE)
               \/ \A c \in Calls, a \in Amounts : ~increase_budget(c[1], j, a, c[2])

\* C21: each operation that succeeds changes only the fields the transition table
\* lists for it: id, finder and token of a stored job never change; assign_artisan
\* writes only artisan and status, start_job only status and start_time,
\* complete_job only status and end_time, cancel_job and auto_release_funds only
\* status (and move funds), extend_deadline only deadline, increase_budget only
\* amount (and moves funds); apply_for_job changes no stored state and no balance.
C21_OnlyListedFieldsChange == [][C21_FrameOfStep]_vars

C21_Witness ==
    \E i \in DOMAIN jobs :
        /\ jobs[i].status = "PendingReview" /\ jobs[i].artisan = "artisan"
        /\ jobs[i].start_time = SevenDays /\ jobs[i].end_time = SevenDays + 1
        /\ jobs[i].deadline = ExtraUnit /\ jobs[i].amount = MaxAmount + 1

\* ---------------------------------------------------------------- C22
C22_TimestampsOfStatus ==
    \A id \in DOMAIN jobs :
        LET job == jobs[id] IN
        /\ job.status \in {"Open", "Assigned", "Cancelled"} => job.start_time = 0
        /\ job.status \in {"Open", "Assigned", "InProgress", "Cancelled"} => job.end_time = 0
        /\ job.status \in {"PendingReview", "Completed"} => job.start_time <= job.end_time
        /\ job.start_time <= now /\ job.end_time <= now

C22_TimestampsOfStep ==
    /\ now' >= now
    /\ \A id \in DOMAIN jobs :
          LET job == jobs[id]
              entersInProgress == job.status # "InProgress" /\ jobs'[id].status = "InProgress"
              entersPendingReview ==
                  job.status # "PendingReview" /\ jobs'[id].status = "PendingReview"
          IN
          /\ entersInProgress => jobs'[id].start_time = now /\ now' = now
          /\ entersPendingReview => jobs'[id].end_time = now /\ now' = now
          /\ jobs'[id].start_time # job.start_time => entersInProgress
          /\ jobs'[id].end_time # job.end_time => entersPendingReview
          /\ entersInProgress => job.status = "Assigned"
          /\ entersPendingReview => job.status = "InProgress"

\* C22: start_time is 0 while the job is Open, Assigned or Cancelled and is set,
\* to the ledger clock of that step, exactly by the step that makes the job
\* InProgress; end_time is 0 until the job becomes PendingReview and is set, to
\* the ledger clock of that step, exactly by the step that makes it PendingReview;
\* no other step changes either; the clock never decreases and start_time <=
\* end_time for every PendingReview or Completed job.
C22_Timestamps == []C22_TimestampsOfStatus /\ [][C22_TimestampsOfStep]_vars

C22_Witness ==
    \E i \in DOMAIN jobs :
        /\ jobs[i].status = "PendingReview" /\ now = SevenDays + 1
        /\ jobs[i].start_time = SevenDays /\ jobs[i].end_time = SevenDays + 1

\* ---------------------------------------------------------------- C23
\* the record an operation that returns leaves, from the record it read, its
\* argument and the clock alone
C23_JobAfter(op, job, arg, clock) ==
    CASE op = "assign_artisan" -> [job EXCEPT !.artisan = arg, !.status = "Assigned"]
      [] op = "apply_for_job" -> job
      [] op = "start_job" -> [job EXCEPT !.status = "InProgress", !.start_time = clock]
      [] op = "complete_job" -> [job EXCEPT !.status = "PendingReview", !.end_time = clock]
      [] op = "cancel_job" -> [job EXCEPT !.status = "Cancelled"]
      [] op = "auto_release_funds" -> [job EXCEPT !.status = "Completed"]
      [] op = "extend_deadline" -> [job EXCEPT !.deadline = @ + arg]
      [] op = "increase_budget" -> [job EXCEPT !.amount = @ + arg]

\* the outcome as far as the job's guards go: whether the token transfer, the
\* last check of every operation that has one, fails is left aside
C23_GuardOutcome(op, caller, j, arg, authed) ==
    LET r == Outcome(op, caller, j, arg, authed) IN
    IF r = "Transfer failed" THEN OK ELSE r

C23_OtherJobsUntouched(j, SameOutcome(_, _, _, _, _)) ==
    \A i \in DOMAIN jobs \ {j} :
        /\ jobs'[i] = jobs[i]
        /\ \A o \in JobOps, d \in Addresses, au \in BOOLEAN :
              \A x \in Args(o) : SameOutcome(o, d, i, x, au)

C23_FullOutcomeKept(o, d, i, x, au) ==
    Outcome(o, d, i, x, au)' = Outcome(o, d, i, x, au)

C23_GuardOutcomeKept(o, d, i, x, au) ==
    C23_GuardOutcome(o, d, i, x, au)' = C23_GuardOutcome(o, d, i, x, au)

\* C23 as stated: an operation on job j leaves every other job's record unchanged,
\* and every operation on another job has the same outcome after it as before it,
\* so that the two in either order leave the same records.
C23_IndependentInEitherOrder ==
    [][\A j \in DOMAIN jobs, op \in JobOps, c \in Calls : \A arg \in Args(op) :
          StepOf(op, c, j, arg) =>
              /\ jobs'[j] = C23_JobAfter(op, jobs[j], arg, now)
              /\ C23_OtherJobsUntouched(j, C23_FullOutcomeKept)]_vars

\* C23 as amended: an operation on job j leaves every other job's record
\* unchanged, writes a record that depends only on the record of j, its argument
\* and the clock, and leaves the outcome of every operation on another job as it
\* was except for whether its token transfer fails; two operations on two
\* different jobs therefore leave the same records in either order whenever no
\* transfer fails in one order only.
C23_IndependentUpToTransfers ==
    [][\A j \in DOMAIN jobs, op \in JobOps, c \in Calls : \A arg \in Args(op) :
          StepOf(op, c, j, arg) =>
              /\ jobs'[j] = C23_JobAfter(op, jobs[j], arg, now)
              /\ now' = now
              /\ C23_OtherJobsUntouched(j, C23_GuardOutcomeKept)]_vars

C23_Witness ==
    /\ job_counter = 2
    /\ jobs[1].status = "Cancelled" /\ jobs[1].finder = "finder" /\ jobs[1].amount = 1
    /\ jobs[2].status = "Open" /\ jobs[2].finder = "finder" /\ jobs[2].amount = 2
    /\ increase_budget_outcome("finder", 2, 1, TRUE) = "Transfer failed"

C25_CreateFailsOnlyUnauthenticated ==
    \A f \in Addresses, t \in Tokens, a \in Amounts : create_job_outcome(f, t, a, TRUE) = OK

\* C25 as amended: create_job fails only if the caller is not authenticated as the
\* finder or the token transfer of the amount from the finder fails (a negative
\* amount, or more than the finder holds); otherwise it succeeds, for every token
\* and amount and in every state of the counter and the job store.
C25_CreateFailsOnlyUnauthenticatedOrUnfunded ==
    \A f \in Addresses, t \in Tokens, a \in Amounts :
        /\ create_job_outcome(f, t, a, FALSE) = "Unauthorized"
        /\ create_job_outcome(f, t, a, TRUE) \in {OK, "Transfer failed"}
        /\ create_job_outcome(f, t, a, TRUE) = OK <=> a >= 0 /\ balance[t][f] >= a
        /\ create_job_outcome(f, t, a, TRUE) = OK <=> ENABLED create_job(f, t, a, TRUE)

C25_Witness ==
    /\ job_counter = 1 /\ jobs[1].finder = "finder" /\ jobs[1].amount = 1
    /\ jobs[1].status = "Cancelled"
    /\ create_job_outcome("finder", "tok", MaxAmount + 1, TRUE) = OK
    /\ create_job_outcome("artisan", "tok", MaxAmount + 1, TRUE) = "Transfer failed"
    /\ create_job_outcome("finder", "tok", 0, TRUE) = OK

\* ---------------------------------------------------------------- C26
\* C26: on an initialised market every job-addressed operation called with a job
\* id that was never allocated aborts as NotFound ("Job not found"), for every
\* authenticated caller and every argument, and takes no step; an unauthenticated
\* call aborts as well.
C26_UnknownJobIsNotFound ==
    registry_contract # None =>
        \A j \in 0 .. (MaxJobs + 1) : j \notin DOMAIN jobs =>
            \A op \in JobOps, c \in Addresses : \A arg \in Args(op) :
                /\ Outcome(op, c, j, arg, TRUE) = "Job not found"
                /\ ErrorKind(Outcome(op, c, j, arg, TRUE)) = "NotFound"
                /\ Outcome(op, c, j, arg, FALSE) # OK
                /\ ~ENABLED StepOf(op, <<c, TRUE>>, j, arg)
                /\ ~ENABLED StepOf(op, <<c, FALSE>>, j, arg)

C26_Witness ==
    /\ registry_contract = Registry /\ job_counter = MaxJobs
    /\ jobs[MaxJobs].status = "InProgress"
    /\ start_job_outcome("artisan", MaxJobs + 1, TRUE) = "Job not found"
    /\ assign_artisan_outcome("finder", 0, "guest", TRUE) = "Job not found"
    /\ increase_budget_outcome("finder", MaxJobs + 1, 1, TRUE) = "Job not found"

\* ---------------------------------------------------------------- C27
C27_SucceedsOnlyIf ==
    \A c \in Addresses, j \in 1 .. (MaxFeeJobs + 1) :
        /\ confirm_delivery_outcome(c, j, FALSE) # OK
        /\ confirm_delivery_outcome(c, j, TRUE) = OK =>
              /\ has_job(j) /\ get_job(j).finder = c
              /\ get_job(j).status = "PendingReview"
        /\ ~has_job(j) => confirm_delivery_outcome(c, j, TRUE) = "Job with ID not found"
        /\ has_job(j) /\ get_job(j).finder # c =>
              confirm_delivery_outcome(c, j, TRUE) = "Only the job's finder can confirm delivery"
        /\ has_job(j) /\ get_job(j).finder = c /\ get_job(j).status # "PendingReview" =>
              confirm_delivery_outcome(c, j, TRUE)
                  = "Job must be in PendingReview status to confirm delivery"
        /\ \A au \in BOOLEAN :
              confirm_delivery_outcome(c, j, au) # OK => ~ENABLED confirm_delivery(c, j, au)

C27_ConfirmStep ==
    \A c \in Calls, j \in 1 .. (MaxFeeJobs + 1) : confirm_delivery(c[1], j, c[2]) =>
        /\ get_job(j).status = "PendingReview" /\ get_job(j).finder = c[1] /\ c[2]
        /\ DOMAIN JOBS' = DOMAIN JOBS
        /\ \A i \in DOMAIN JOBS :
              JOBS'[i] = IF JOBS[i].id = j THEN [JOBS[i] EXCEPT !.status = "Completed"]
                         ELSE JOBS[i]
        /\ \A d \in Addresses : confirm_delivery_outcome(d, j, TRUE)' # OK

\* C27: confirm_delivery(finder, job_id) succeeds only if the job exists, the
\* caller is that job's finder and the job is PendingReview; it then sets that
\* job's status to Completed and leaves every other job as it was, so a second
\* confirm_delivery on the job aborts; a call by another identity, on a job that
\* is not PendingReview or on an unknown id aborts and takes no step.
C27_ConfirmDelivery == []C27_SucceedsOnlyIf /\ [][C27_ConfirmStep]_vars

C27_Witness ==
    /\ Len(JOBS) = 2 /\ ADMIN = Admin
    /\ JOBS[1].status = "Completed" /\ JOBS[2].status = "PendingReview"
    /\ events = <<[kind |-> "FUNDS_REL", id |-> 1, artisan |-> "artisan", amount |-> 9900]>>
    /\ confirm_delivery_outcome("finder", 1, TRUE)
          = "Job must be in PendingReview status to confirm delivery"
    /\ confirm_delivery_outcome("finder", 2, TRUE) = OK

\* ---------------------------------------------------------------- C28
\* C28: a confirm_delivery that succeeds releases the escrowed funds: the
\* artisan's balance grows by escrow_amount minus the fee, the admin's balance
\* grows by the fee, and payout plus fee is exactly the job's escrow_amount.
C28_ConfirmReleasesFunds ==
    [][\A c \in Calls, j \in 1 .. (MaxFeeJobs + 1) : confirm_delivery(c[1], j, c[2]) =>
          LET job == get_job(j)
              fee == calculate_fee(job.escrow_amount)
              payout == job.escrow_amount - fee
          IN
          /\ payout + fee = job.escrow_amount
          /\ \E t \in Tokens :
                /\ balance'[t][job.artisan] = balance[t][job.artisan] + payout
                /\ balance'[t][ADMIN] = balance[t][ADMIN] + fee]_vars

\* ---------------------------------------------------------------- C29
\* fee is amount / 100 rounded down
C29_IsFloorOfHundredth(fee, amount) == 100 * fee <= amount /\ amount < 100 * (fee + 1)

\* C29: calculate_fee(amount) is floor(amount / 100) for every non-negative amount
\* (99 gives 0, 100 gives 1, 10000 gives 100, 123456 gives 1234), so 0 <= fee <=
\* amount and the payout amount - fee, which confirm_delivery publishes, is never
\* negative.
C29_FeeIsFloorOfOnePercent ==
    /\ \A a \in FeeAmounts :
          /\ C29_IsFloorOfHundredth(calculate_fee(a), a)
          /\ 0 <= calculate_fee(a) /\ calculate_fee(a) <= a /\ a - calculate_fee(a) >= 0
    /\ calculate_fee(99) = 0 /\ calculate_fee(100) = 1
    /\ calculate_fee(10000) = 100 /\ calculate_fee(123456) = 1234
    /\ \A i \in DOMAIN JOBS :
          C29_IsFloorOfHundredth(calculate_fee(JOBS[i].escrow_amount), JOBS[i].escrow_amount)
    /\ events # << >> =>
          LET job == get_job(events[1].id) IN
          /\ events[1].amount >= 0
          /\ C29_IsFloorOfHundredth(job.escrow_amount - events[1].amount, job.escrow_amount)

C29_Witness ==
    /\ Len(JOBS) >= 1 /\ JOBS[1].escrow_amount = 123456 /\ JOBS[1].status = "Completed"
    /\ events = <<[kind |-> "FUNDS_REL", id |-> 1, artisan |-> "artisan", amount |-> 122222]>>

\* ---------------------------------------------------------------- C30
C30_RemoveOutcome ==
    \A u \in Addresses :
        LET r == remove_curator_outcome(u, TRUE) IN
        /\ r = OK <=> /\ registry_admin # None
                      /\ profiles[u].present /\ profiles[u].role = ROLE_CURATOR
        /\ registry_admin = None => r = "Contract not initialized"
        /\ registry_admin # None /\ ~profiles[u].present => r = "User not found"
        /\ registry_admin # None /\ profiles[u].present
              /\ profiles[u].role \in {ROLE_FINDER, ROLE_ARTISAN, ROLE_ADMIN}
              => r = "User is not a Curator"
        /\ remove_curator_outcome(u, FALSE) # OK
        /\ \A au \in BOOLEAN :
              remove_curator_outcome(u, au) # OK => ~ENABLED remove_curator(u, au)

C30_RemoveStep ==
    \A u \in Addresses, au \in BOOLEAN : remove_curator(u, au) =>
        /\ profiles[u].role = ROLE_CURATOR
        /\ profiles'[u] = [profiles[u] EXCEPT !.role = ROLE_FINDER]
        /\ \A v \in Addresses \ {u} : profiles'[v] = profiles[v]
        /\ registry_admin' = registry_admin
        /\ remove_curator_outcome(u, TRUE)' = "User is not a Curator"

\* C30: remove_curator(curator) succeeds only when the Registry is initialised and
\* the target has a profile whose role is Curator; it then sets that role to
\* Finder and leaves every other profile unchanged; it aborts, taking no step,
\* for an unregistered target, for a Finder, an Artisan or an Admin, and when
\* repeated on the user it has demoted.
C30_RemoveCurator == []C30_RemoveOutcome /\ [][C30_RemoveStep]_vars

C30_Witness ==
    /\ registry_admin = "finder"
    /\ events = <<[kind |-> "CuratorRemoved", curator |-> "artisan"]>>
    /\ profiles["artisan"].role = ROLE_FINDER
    /\ profiles["banned"].present /\ profiles["banned"].role = ROLE_CURATOR
    /\ profiles["finder"].present /\ profiles["finder"].role = ROLE_ADMIN
    /\ ~profiles["guest"].present
    /\ remove_curator_outcome("artisan", TRUE) = "User is not a Curator"

\* ---------------------------------------------------------------- C31
\* C31: approve_artisan(caller, artisan) aborts if the Registry has not been
\* initialized (no admin set), if the caller is not a Curator or Admin, or if the
\* artisan has no registered profile; otherwise it sets the artisan's role to
\* Artisan (3) and changes no other profile.
C31_ApproveArtisan ==
    /\ [](\A c \in Addresses, a \in Addresses :
            approve_artisan_outcome(c, a, TRUE) = OK <=>
                /\ registry_admin # None
                /\ profiles[c].present /\ profiles[c].role \in {ROLE_CURATOR, ROLE_ADMIN}
                /\ profiles[a].present)
    /\ [][\A c \in Calls, a \in Addresses : approve_artisan(c[1], a, c[2]) =>
            /\ registry_admin # None
            /\ profiles'[a] = [profiles[a] EXCEPT !.role = ROLE_ARTISAN]
            /\ \A v \in Addresses \ {a} : profiles'[v] = profiles[v]]_vars

\* ---------------------------------------------------------------- C32
C32_Outcomes ==
    \A j \in DOMAIN jobs, c \in Addresses :
        LET job == jobs[j]
            s == start_job_outcome(c, j, TRUE)
            d == complete_job_outcome(c, j, TRUE)
        IN
        /\ s = OK => job.artisan = c /\ job.status = "Assigned"
        /\ d = OK => job.artisan = c /\ job.status = "InProgress"
        /\ job.status = "Assigned" /\ job.artisan # c =>
              s = "Not assigned to this job" /\ ~ENABLED start_job(c, j, TRUE)
        /\ job.status = "InProgress" /\ job.artisan # c =>
              d = "Not assigned to this job" /\ ~ENABLED complete_job(c, j, TRUE)
        /\ job.status # "Assigned" => s = "Job is not assigned"
        /\ job.artisan # c => d = "Not assigned to this job"
        /\ job.artisan = c /\ job.status # "InProgress" => d = "Job is not in progress"

C32_Steps ==
    \A c \in Calls, j \in 1 .. (MaxJobs + 1) :
        start_job(c[1], j, c[2]) \/ complete_job(c[1], j, c[2]) =>
            c[2] /\ jobs[j].artisan = c[1] /\ jobs'[j].artisan = c[1]

\* C32: start_job and complete_job succeed only for the job's assigned artisan.
\* Any other caller on an Assigned job (start_job) or an InProgress job
\* (complete_job) aborts with "Not assigned to this job" and takes no step.  On a
\* job in another status start_job reports "Job is not assigned" whoever calls,
\* while complete_job reports "Not assigned to this job" to a caller who is not
\* the assigned artisan and "Job is not in progress" only to the assigned one.
C32_OnlyAssignedArtisan == []C32_Outcomes /\ [][C32_Steps]_vars

C32_Witness ==
    /\ 1 \in DOMAIN jobs /\ jobs[1].status = "InProgress" /\ jobs[1].artisan = "artisan"
    /\ jobs[1].start_time = SevenDays
    /\ start_job_outcome("banned", 1, TRUE) = "Job is not assigned"
    /\ start_job_outcome("artisan", 1, TRUE) = "Job is not assigned"
    /\ complete_job_outcome("finder", 1, TRUE) = "Not assigned to this job"
    /\ complete_job_outcome("artisan", 1, TRUE) = OK

\* ---------------------------------------------------------------- C33
\* a candidate with role 3 who is not blacklisted passes, verified or not
C33_UnverifiedPasses ==
    \A a \in Addresses :
        profiles[a].present /\ profiles[a].role = ROLE_ARTISAN /\ ~profiles[a].is_blacklisted =>
            /\ role_gate(a) = OK
            /\ \A j \in DOMAIN jobs :
                  registry_contract # None /\ jobs[j].status = "Open" =>
                      /\ assign_artisan_outcome(jobs[j].finder, j, a, TRUE) = OK
                      /\ apply_for_job_outcome(a, j, TRUE) = OK

\* the profiles differ in is_verified values only
C33_OnlyVerifiedDiffers(p, q) ==
    \A a \in Addresses : q[a] = [p[a] EXCEPT !.is_verified = q[a].is_verified]

\* rewriting is_verified alone changes no outcome and no job
C33_SameOutcomes ==
    profiles' # profiles /\ C33_OnlyVerifiedDiffers(profiles, profiles') =>
        /\ jobs' = jobs /\ balance' = balance /\ job_counter' = job_counter
        /\ \A o \in JobOps, c \in Calls, j \in 1 .. (MaxJobs + 1) : \A x \in Args(o) :
              Outcome(o, c[1], j, x, c[2])' = Outcome(o, c[1], j, x, c[2])
        /\ \A c \in CreatorCalls, t \in Tokens, x \in Amounts :
              create_job_outcome(c[1], t, x, c[2])' = create_job_outcome(c[1], t, x, c[2])

\* what an operation writes is given by the record it read, its argument and the
\* clock: no profile enters it
C33_SameJobStates ==
    \A j \in DOMAIN jobs : jobs'[j] # jobs[j] =>
        \A op \in JobOps, c \in Calls : \A arg \in Args(op) :
            StepOf(op, c, j, arg) =>
                jobs' = [jobs EXCEPT ![j] = C23_JobAfter(op, jobs[j], arg, now)]

\* C33: is_verified never influences the marketplace.  assign_artisan and
\* apply_for_job succeed for a candidate with role 3 and is_blacklisted = false
\* also when is_verified is false; two states that differ only in is_verified
\* values give every call the same outcome, and what a call writes into the job
\* does not depend on any profile, so two runs that differ only in is_verified
\* values go through the same outcomes and the same job states.
C33_VerifiedFlagIgnored ==
    []C33_UnverifiedPasses /\ [][C33_SameOutcomes /\ C33_SameJobStates]_vars

C33_Witness ==
    /\ 1 \in DOMAIN jobs /\ jobs[1].status = "Assigned" /\ jobs[1].artisan = "artisan"
    /\ profiles["artisan"] = Profile(ROLE_ARTISAN, TRUE, FALSE)
    /\ start_job_outcome("artisan", 1, TRUE) = OK

\* ---------------------------------------------------------------- C34
\* the sum of amount over the jobs of token t that are neither Completed nor
\* Cancelled
C34_Escrowed(t) ==
    SumOver([id \in DOMAIN jobs |-> jobs[id].amount],
            {id \in DOMAIN jobs : jobs[id].token = t /\ ~Terminal(jobs[id].status)})

\* C34: for each token the contract's balance equals the sum of amount over that
\* token's jobs whose status is neither Completed nor Cancelled; so the contract
\* always holds the amount of every such job, and neither the refund of
\* cancel_job nor the payout of auto_release_funds fails for lack of funds,
\* whatever was done to other jobs in between.
C34_Solvency ==
    /\ \A t \in Tokens : balance[t][Market] = C34_Escrowed(t)
    /\ \A j \in DOMAIN jobs :
          /\ ~Terminal(jobs[j].status) => CanTransfer(jobs[j].token, Market, jobs[j].amount)
          /\ \A c \in Calls :
                /\ cancel_job_outcome(c[1], j, c[2]) # "Transfer failed"
                /\ auto_release_funds_outcome(c[1], j, c[2]) # "Transfer failed"
          /\ jobs[j].status = "Open" => cancel_job_outcome(jobs[j].finder, j, TRUE) = OK
          /\ jobs[j].status = "PendingReview" /\ now > release_time(jobs[j]) =>
                auto_release_funds_outcome(jobs[j].artisan, j, TRUE) = OK

C34_Witness ==
    /\ job_counter = 2
    /\ jobs[1].status = "Completed" /\ jobs[1].amount = 1
    /\ jobs[2].status = "PendingReview" /\ jobs[2].amount = 1 /\ jobs[2].end_time = 0
    /\ now = SevenDays + 1
    /\ balance["tok"][Market] = 1
    /\ auto_release_funds_outcome("artisan", 2, TRUE) = OK

\* ---------------------------------------------------------------- C35
\* the job has left Open and is not terminal
C35_Underway(job) == job.status \in {"Assigned", "InProgress", "PendingReview"}

\* cancel_job aborts for every caller of a job that has left Open
C35_CancelAborts ==
    \A j \in DOMAIN jobs : C35_Underway(jobs[j]) =>
        \A c \in Calls : /\ cancel_job_outcome(c[1], j, c[2]) # OK
                          /\ ~ENABLED cancel_job(c[1], j, c[2])

\* the status of such a job moves only by a call of its assigned artisan, it
\* becomes terminal only by auto_release_funds, as Completed, and until then the
\* contract keeps all it holds for the job
C35_OnlyArtisanMoves ==
    \A j \in DOMAIN jobs : C35_Underway(jobs[j]) =>
        /\ jobs'[j].status # jobs[j].status =>
                \/ start_job(jobs[j].artisan, j, TRUE)
                \/ complete_job(jobs[j].artisan, j, TRUE)
                \/ auto_release_funds(jobs[j].artisan, j, TRUE)
        /\ Terminal(jobs'[j].status) =>
                /\ auto_release_funds(jobs[j].artisan, j, TRUE)
                /\ jobs'[j].status = "Completed"
                /\ paid'[j] = <<[to |-> jobs[j].artisan, amount |-> jobs[j].amount]>>
        /\ ~Terminal(jobs'[j].status) =>
                /\ paid'[j] = << >>
                /\ Custody(j)' >= Custody(j)
                /\ Custody(j)' = jobs'[j].amount

\* nothing is transferred to the finder of a job that has left Open
C35_NothingToFinder ==
    \A j \in DOMAIN jobs : C35_Underway(jobs[j]) =>
        \A i \in DOMAIN paid'[j] : paid'[j][i].to # jobs[j].finder

\* unless the finder is the artisan the job is assigned to
C35_NothingToFinderButAsArtisan ==
    \A j \in DOMAIN jobs : C35_Underway(jobs[j]) /\ jobs[j].finder # jobs[j].artisan =>
        \A i \in DOMAIN paid'[j] : paid'[j][i].to # jobs[j].finder

\* C35 as stated: once a job is Assigned, InProgress or PendingReview no operation
\* returns its escrow to the finder: cancel_job aborts, the only step to a
\* terminal status is auto_release_funds by the assigned artisan, and while the
\* artisan calls none of start_job, complete_job and auto_release_funds the job
\* stays non-terminal with its escrow in the contract.
C35_NoRefundAfterOpen ==
    []C35_CancelAborts /\ [][C35_OnlyArtisanMoves /\ C35_NothingToFinder]_vars

\* C35 as amended: the same, except that the escrow does reach the finder when
\* the finder is the assigned artisan and takes it as the payout of
\* auto_release_funds.
C35_NoRefundAfterOpenButAsArtisan ==
    []C35_CancelAborts /\ [][C35_OnlyArtisanMoves /\ C35_NothingToFinderButAsArtisan]_vars

C35_Witness ==
    /\ 1 \in DOMAIN jobs /\ jobs[1].status = "Completed"
    /\ jobs[1].finder = "artisan" /\ jobs[1].artisan = "artisan" /\ jobs[1].amount = 1
    /\ paid[1] = <<[to |-> "artisan", amount |-> 1]>>
    /\ balance["tok"]["artisan"] = 1

\* ---------------------------------------------------------------- C36
\* the statuses that may follow a status
C36_Successors(status) ==
    CASE status = "Open" -> {"Assigned", "Cancelled"}
      [] status = "Assigned" -> {"InProgress"}
      [] status = "InProgress" -> {"PendingReview"}
      [] status = "PendingReview" -> {"Completed"}
      [] OTHER -> {}

\* the position of a status in the sequence
C36_Rank(status) ==
    CASE status = "Open" -> 0
      [] status = "Assigned" -> 1
      [] status = "InProgress" -> 2
      [] status = "PendingReview" -> 3
      [] status = "Completed" -> 4
      [] status = "Cancelled" -> 5
      [] OTHER -> 0 - 1

C36_StatusStep ==
    \A j \in DOMAIN jobs' :
        IF j \in DOMAIN jobs
        THEN \/ jobs'[j].status = jobs[j].status
             \/ /\ jobs'[j].status \in C36_Successors(jobs[j].status)
                /\ C36_Rank(jobs'[j].status) > C36_Rank(jobs[j].status)
                /\ jobs'[j].status = "Cancelled" => jobs[j].status = "Open"
                /\ jobs'[j].status # "Cancelled" =>
                      C36_Rank(jobs'[j].status) = C36_Rank(jobs[j].status) + 1
        ELSE jobs'[j].status = "Open"

\* C36: every job starts Open and each change of its status goes to the next
\* status of Open, Assigned, InProgress, PendingReview, Completed, or from Open to
\* Cancelled: no status is re-entered, none is skipped, Cancelled follows only
\* Open, and nothing follows Completed or Cancelled.
C36_StatusSequence ==
    /\ [](\A j \in DOMAIN jobs : C36_Rank(jobs[j].status) >= 0)
    /\ [][C36_StatusStep]_vars

C36_Witness ==
    /\ 1 \in DOMAIN jobs /\ jobs[1].status = "Completed"
    /\ jobs[1].start_time = 0 /\ jobs[1].end_time = 0 /\ jobs[1].deadline = ExtraUnit
    /\ now = SevenDays + 1

\* ---------------------------------------------------------------- C37
\* the assigned artisan can go on, whatever the Registry now says of it
C37_ArtisanGoesOn ==
    \A j \in DOMAIN jobs :
        LET job == jobs[j] IN
        /\ job.status = "Assigned" => start_job_outcome(job.artisan, j, TRUE) = OK
        /\ job.status = "InProgress" => complete_job_outcome(job.artisan, j, TRUE) = OK
        /\ job.status = "PendingReview" /\ now > release_time(job) =>
              auto_release_funds_outcome(job.artisan, j, TRUE) = OK
        /\ job.status = "PendingReview" /\ now <= release_time(job) =>
              auto_release_funds_outcome(job.artisan, j, TRUE)
                  = "7 days have not passed since job completion"

\* a rewritten profile changes the outcome of none of the three, and the release
\* pays the whole amount to the artisan
C37_RegistryNotConsulted ==
    /\ profiles' # profiles =>
          \A c \in Calls, j \in 1 .. (MaxJobs + 1) :
              /\ start_job_outcome(c[1], j, c[2])' = start_job_outcome(c[1], j, c[2])
              /\ complete_job_outcome(c[1], j, c[2])' = complete_job_outcome(c[1], j, c[2])
              /\ auto_release_funds_outcome(c[1], j, c[2])'
                    = auto_release_funds_outcome(c[1], j, c[2])
    /\ \A j \in DOMAIN jobs :
          jobs[j].status = "PendingReview" /\ jobs'[j].status = "Completed" =>
              /\ paid'[j] = <<[to |-> jobs[j].artisan, amount |-> jobs[j].amount]>>
              /\ balance' = Transfer(balance, jobs[j].token, Market, jobs[j].artisan,
                                      jobs[j].amount)
              /\ jobs[j].amount = received[j]

\* C37: the role gate is evaluated only at assignment and application.  start_job,
\* complete_job and auto_release_funds never consult the Registry: an artisan
\* whose profile is blacklisted or given another role after a successful
\* assign_artisan can still start and complete the job and receives the full
\* payout.
C37_GateOnlyAtAssignment == []C37_ArtisanGoesOn /\ [][C37_RegistryNotConsulted]_vars

C37_Witness ==
    /\ 1 \in DOMAIN jobs /\ jobs[1].status = "PendingReview" /\ jobs[1].artisan = "artisan"
    /\ jobs[1].finder = "finder" /\ jobs[1].amount = MaxAmount + 1
    /\ now = SevenDays + 1
    /\ profiles["artisan"] = Profile(ROLE_ARTISAN, FALSE, TRUE)
    /\ role_gate("artisan") = "User is blacklisted"
    /\ auto_release_funds_outcome("artisan", 1, TRUE) = OK

\* ---------------------------------------------------------------- C38
\* job j is PendingReview and its review period is over
C38_Releasable(j) ==
    /\ j \in DOMAIN jobs /\ jobs[j].status = "PendingReview"
    /\ now > jobs[j].end_time + SevenDays

C38_Enabled ==
    \A j \in 1 .. (MaxJobs + 1) : C38_Releasable(j) =>
        /\ auto_release_funds_outcome(jobs[j].artisan, j, TRUE) = OK
        /\ ENABLED auto_release_funds(jobs[j].artisan, j, TRUE)

\* a step leaves a releasable job releasable, with the same artisan, or is its
\* release
C38_StaysEnabled ==
    \A j \in 1 .. (MaxJobs + 1) : C38_Releasable(j) =>
        \/ /\ C38_Releasable(j)' /\ jobs'[j].artisan = jobs[j].artisan
        \/ /\ auto_release_funds(jobs[j].artisan, j, TRUE)
           /\ jobs'[j].status = "Completed"

C38_EventuallyCompleted ==
    \A j \in 1 .. (MaxJobs + 1) :
        C38_Releasable(j) ~> (j \in DOMAIN jobs /\ jobs[j].status = "Completed")

\* C38: once a job is PendingReview and the clock exceeds end_time + 604800,
\* auto_release_funds by the assigned artisan is enabled and stays enabled until
\* it is taken, whatever is done in between (extend_deadline or increase_budget
\* on the job, any operation on another job); under weak fairness of that action
\* every such job eventually becomes Completed.
C38_ReleaseEventually ==
    []C38_Enabled /\ [][C38_StaysEnabled]_vars /\ C38_EventuallyCompleted

C38_Witness ==
    /\ job_counter = 2
    /\ jobs[1].status = "Completed" /\ jobs[1].amount = MaxAmount + 1
    /\ jobs[1].deadline = ExtraUnit
    /\ paid[1] = <<[to |-> "artisan", amount |-> MaxAmount + 1]>>
    /\ jobs[2].status = "Assigned"

====
